---------------------------- MODULE Spec2Model ----------------------------
(***************************************************************************)
(* Verification model of the remediation core:                             *)
(*   src/src/task_queue.py            TaskQueue (priority / scheduled /    *)
(*                                    dead-letter queue on a Redis store)  *)
(*   src/src/state_machine.py         StateMachine, StateMachineManager    *)
(*   src/src/workflow_orchestrator.py WorkflowOrchestrator, RetryPolicy    *)
(*   src/src/orchestration_engine.py  CircuitBreaker, OrchestrationEngine  *)
(* Each component has its own specification (SpecQueue, SpecWorker, ...)   *)
(* over the variables it owns; the other components stay as constructed.   *)
(***************************************************************************)
EXTENDS Integers, Sequences, FiniteSets, TLC

(***************************************************************************)
(* Bounds of the model                                                     *)
(***************************************************************************)
MaxTasks == 2
MaxClock == 2
MaxSchedule == 1
MaxRetriesArg == 2
MaxDlq == 2
MaxStray == 1
MaxCases == 1
MaxFailures == 3
MaxTime == 3
MaxThreshold == 2
MaxTimeout == 2
MaxAlerts == 3
MaxProps == 2
MaxSteps == 3
MaxExecSteps == 2
MaxStepRetries == 0
MaxHandlers == 2
MaxAttempt == 2
MaxInitialDelay == 2
MaxBase == 2
MaxDelay == 3
MaxPolicyRetries == 3
MaxBaseDelay == 2
MaxHistory == 2

(***************************************************************************)
(* Generic helpers                                                         *)
(***************************************************************************)
None == <<>>
Some(x) == <<x>>

Range(s) == { s[i] : i \in 1..Len(s) }

Min(a, b) == IF a <= b THEN a ELSE b

RECURSIVE Pow2(_)
Pow2(n) == IF n <= 0 THEN 1 ELSE 2 * Pow2(n - 1)

RECURSIVE Pow(_, _)
Pow(b, n) == IF n <= 0 THEN 1 ELSE b * Pow(b, n - 1)

\* redis LPUSH: the new element becomes the head of the list
LPush(list, x) == <<x>> \o list

\* (mutant) a pop that returns the head of the list
LPopValue(list) == list[1]

\* (mutant) a pop that reads the tail and leaves it in the list
RPopKeeping(list) == list

\* redis RPOP: the tail of the list is removed and returned
RPopValue(list) == list[Len(list)]
RPopRest(list) == SubSeq(list, 1, Len(list) - 1)

\* (mutant) lrem that leaves the list as it is
LRemKeeping(list, value) == list

\* redis LREM list 0 x: every occurrence of x is removed
LRemAll(list, x) == SelectSeq(list, LAMBDA y : y # x)

(***************************************************************************)
(* TaskQueue: src/src/task_queue.py                                        *)
(***************************************************************************)
VARIABLES
    now,                \* the clock read by datetime.utcnow() / time.time()
    task_store,         \* redis hash  {queue}:tasks     task_id -> serialized Task
    priority_queues,    \* redis lists {queue}:{priority}           (head first)
    scheduled,          \* redis zsets {queue}:{priority}:scheduled (id, score)
    processing_queue,   \* redis list  {queue}:processing
    dead_letter_queue,  \* redis list  {queue}:dlq
    q_ret,              \* the last queue operation: the task id it was called
                        \* with (complete, fail) or returned, and the priority
    delivered,          \* history: how many times dequeue returned each task
    stray               \* history: complete / fail calls for a task not in processing

qvars == <<now, task_store, priority_queues, scheduled, processing_queue,
           dead_letter_queue, q_ret, delivered, stray>>

\* class TaskPriority
CRITICAL == 1
HIGH == 2
NORMAL == 3
LOW == 4
TaskPriority == {CRITICAL, HIGH, NORMAL, LOW}

\* class TaskStatus
PENDING_T == "pending"
PROCESSING == "processing"
COMPLETED == "completed"
FAILED_T == "failed"
RETRYING == "retrying"
DEAD_LETTERED == "dead_lettered"

\* the cap of the retry backoff in TaskQueue.fail
MaxBackoff == 3600

TaskIds == 1..MaxTasks
NoTask == 0

\* TaskPriority.name and TaskPriority[name], used by Task.to_dict / from_dict
PriorityName(p) ==
    CASE p = CRITICAL -> "CRITICAL"
      [] p = HIGH -> "HIGH"
      [] p = NORMAL -> "NORMAL"
      [] p = LOW -> "LOW"

PriorityByName(n) == CHOOSE p \in TaskPriority : PriorityName(p) = n

\* Task.to_dict: the enum fields are written as name / value
to_dict(task) == [task EXCEPT !.priority = PriorityName(task.priority)]

\* Task.from_dict: the enum fields are read back
from_dict(data) == [data EXCEPT !.priority = PriorityByName(data.priority)]

\* The ISO time strings started_at and completed_at are written by the queue
\* and never read back by it: a field is None or set. scheduled_at is None or
\* the time it names, in seconds.
Stamp == Some("iso")

\* Task(...) as built by enqueue: the dataclass defaults of the other fields
NewTask(id, priority, max_retries) ==
    [task_id |-> id, priority |-> priority, status |-> PENDING_T,
     retry_count |-> 0, max_retries |-> max_retries,
     scheduled_at |-> None, started_at |-> None, completed_at |-> None,
     error_message |-> None]

Known(id) == id \in DOMAIN task_store

\* get_task
get_task(id) == from_dict(task_store[id])

\* hset(task_store, id, json.dumps(task.to_dict()))
StorePut(store, task) ==
    [i \in DOMAIN store \cup {task.task_id} |->
        IF i = task.task_id THEN to_dict(task) ELSE store[i]]

\* zadd: one score per member, a second zadd of a member replaces its score
ZAdd(zset, id, score) == { e \in zset : e[1] # id } \cup { <<id, score>> }

\* zrem
ZRem(zset, id) == { e \in zset : e[1] # id }

\* (mutant) a range query that also returns the members due within the next second
DueAhead(zset, t) == { e \in zset : e[2] >= 0 /\ e[2] <= t + 1 }

\* zrangebyscore(key, 0, now, count=1): the member of lowest score in [0, now],
\* members of equal score in the order of the member strings; {} when none
Due(zset, t) == { e \in zset : e[2] >= 0 /\ e[2] <= t }

ZRangeByScoreFirst(zset, t) ==
    LET due == Due(zset, t)
    IN  IF due = {} THEN {}
        ELSE { CHOOSE e \in due :
                 \A f \in due : e[2] < f[2] \/ (e[2] = f[2] /\ e[1] <= f[1]) }

\* enqueue(task_type, payload, priority, scheduled_at, max_retries); the task id
\* is uuid4, so any unused id
Enqueue(id, priority, scheduled_at, max_retries) ==
    /\ ~Known(id)
    /\ LET task0 == NewTask(id, priority, max_retries)
           task == IF scheduled_at # None
                   THEN [task0 EXCEPT !.scheduled_at = scheduled_at]
                   ELSE task0
       IN  /\ task_store' = StorePut(task_store, task)
           /\ IF scheduled_at # None /\ scheduled_at[1] > now
              THEN /\ scheduled' = [scheduled EXCEPT ![priority] =
                                        ZAdd(@, id, scheduled_at[1])]
                   /\ UNCHANGED priority_queues
              ELSE /\ priority_queues' = [priority_queues EXCEPT ![priority] =
                                             LPush(@, id)]
                   /\ UNCHANGED scheduled
    /\ q_ret' = [op |-> "enqueue", id |-> id, priority |-> priority]
    /\ UNCHANGED <<now, processing_queue, dead_letter_queue, delivered, stray>>

\* The queue state threaded through the loop of dequeue
QueueState ==
    [store |-> task_store, queues |-> priority_queues, sched |-> scheduled,
     processing |-> processing_queue, found |-> NoTask]

\* (mutant) dequeue that forgets to promote the due scheduled ids
DequeueAtNoPromote(st, p) ==
    IF st.queues[p] = <<>> THEN st
    ELSE LET id == RPopValue(st.queues[p])
             popped == [st EXCEPT !.queues[p] = RPopRest(@)]
             task == [from_dict(popped.store[id]) EXCEPT
                          !.status = PROCESSING, !.started_at = Stamp]
         IN  [popped EXCEPT !.store = StorePut(@, task),
                            !.processing = LPush(@, id),
                            !.found = id]

\* One pass of the loop body of dequeue for priority p on state st
DequeueAt(st, p) ==
    LET first == ZRangeByScoreFirst(st.sched[p], now)
        promoted == IF first = {} THEN st
                    ELSE LET e == CHOOSE x \in first : TRUE
                         IN  [st EXCEPT !.sched[p] = ZRem(@, e[1]),
                                        !.queues[p] = LPush(@, e[1])]
    IN  IF promoted.queues[p] = <<>> THEN promoted
        ELSE LET id == RPopValue(promoted.queues[p])
                 popped == [promoted EXCEPT !.queues[p] = RPopRest(@)]
             IN  IF id \in DOMAIN popped.store
                 THEN LET task == [from_dict(popped.store[id]) EXCEPT
                                       !.status = PROCESSING,
                                       !.started_at = Stamp]
                      IN  [popped EXCEPT !.store = StorePut(@, task),
                                         !.processing = LPush(@, id),
                                         !.found = id]
                 ELSE popped

\* for priority in sorted(TaskPriority, key=value): ... return task
RECURSIVE DequeueScan(_, _)
DequeueScan(st, p) ==
    IF p > LOW THEN st
    ELSE LET next == DequeueAt(st, p)
         IN  IF next.found # NoTask THEN next ELSE DequeueScan(next, p + 1)

\* dequeue()
Dequeue ==
    LET st == DequeueScan(QueueState, CRITICAL)
    IN  /\ task_store' = st.store
        /\ priority_queues' = st.queues
        /\ scheduled' = st.sched
        /\ processing_queue' = st.processing
        /\ q_ret' = [op |-> "dequeue", id |-> st.found,
                     priority |-> IF st.found = NoTask THEN 0
                                  ELSE from_dict(st.store[st.found]).priority]
        /\ delivered' = IF st.found = NoTask THEN delivered
                        ELSE [delivered EXCEPT ![st.found] = @ + 1]
        /\ UNCHANGED <<now, dead_letter_queue, stray>>

\* (mutant) complete that also takes the id out of the scheduled sets
CompleteUnscheduling(id) ==
    /\ IF ~Known(id)
       THEN UNCHANGED <<task_store, processing_queue, scheduled>>
       ELSE LET task == [get_task(id) EXCEPT !.status = COMPLETED,
                                             !.completed_at = Stamp,
                                             !.retry_count = 0]
            IN  /\ task_store' = StorePut(task_store, task)
                /\ processing_queue' = LRemAll(processing_queue, id)
                /\ scheduled' = [p \in TaskPriority |-> ZRem(scheduled[p], id)]
    /\ q_ret' = [op |-> "complete", id |-> id, priority |-> 0]
    /\ UNCHANGED <<now, priority_queues, dead_letter_queue, delivered>>

\* complete(task_id)
Complete(id) ==
    /\ IF ~Known(id)
       THEN UNCHANGED <<task_store, processing_queue>>
       ELSE LET task == [get_task(id) EXCEPT !.status = COMPLETED,
                                             !.completed_at = Stamp,
                                             !.retry_count = 0]
            IN  /\ task_store' = StorePut(task_store, task)
                /\ processing_queue' = LRemAll(processing_queue, id)
    /\ q_ret' = [op |-> "complete", id |-> id, priority |-> 0]
    /\ UNCHANGED <<now, priority_queues, scheduled, dead_letter_queue, delivered>>

\* (mutant) a backoff computed from the retry count before its increment
BackoffBeforeIncrement(retry_count) == Min(Pow2(retry_count - 1), MaxBackoff)

\* min(2 ** task.retry_count, 3600)
Backoff(retry_count) == Min(Pow2(retry_count), MaxBackoff)

\* (mutant) fail that loses the retry: nothing is added to the scheduled set
RescheduleLost(zsets, priority, id, retry_time) == zsets

\* zadd(f"{queue_key}:scheduled", {task_id: score}) of fail, queue_key that of the
\* task's own priority
Reschedule(zsets, priority, id, retry_time) ==
    [zsets EXCEPT ![priority] = ZAdd(@, id, retry_time)]

\* the test of fail that sends a task to a retry rather than to the dead letters
ShouldRetry(task) == task.retry_count < task.max_retries

\* fail(task_id, error_message)
Fail(id) ==
    /\ IF ~Known(id)
       THEN UNCHANGED <<task_store, processing_queue, scheduled, dead_letter_queue>>
       ELSE LET task == [get_task(id) EXCEPT !.retry_count = @ + 1,
                                             !.error_message = Some("error")]
            IN  /\ processing_queue' = LRemAll(processing_queue, id)
                /\ IF ShouldRetry(task)
                   THEN LET retry_time == now + Backoff(task.retry_count)
                            t2 == [task EXCEPT !.status = RETRYING,
                                               !.scheduled_at = Some(retry_time)]
                        IN  /\ task_store' = StorePut(task_store, t2)
                            /\ scheduled' = Reschedule(scheduled, task.priority,
                                                        id, retry_time)
                            /\ UNCHANGED dead_letter_queue
                   ELSE LET t2 == [task EXCEPT !.status = DEAD_LETTERED]
                        IN  /\ Len(dead_letter_queue) < MaxDlq
                            /\ task_store' = StorePut(task_store, t2)
                            /\ dead_letter_queue' = LPush(dead_letter_queue, id)
                            /\ UNCHANGED scheduled
    /\ q_ret' = [op |-> "fail", id |-> id, priority |-> 0]
    /\ UNCHANGED <<now, priority_queues, delivered>>

\* get_stats: the lengths of the lists and of the store
get_stats ==
    [total_queued |-> Len(priority_queues[CRITICAL]) + Len(priority_queues[HIGH])
                        + Len(priority_queues[NORMAL]) + Len(priority_queues[LOW]),
     critical |-> Len(priority_queues[CRITICAL]),
     high |-> Len(priority_queues[HIGH]),
     normal |-> Len(priority_queues[NORMAL]),
     low |-> Len(priority_queues[LOW]),
     processing |-> Len(processing_queue),
     dead_lettered |-> Len(dead_letter_queue),
     total_tasks |-> Cardinality(DOMAIN task_store)]

\* the clock advances by one second
Tick ==
    /\ now < MaxClock
    /\ now' = now + 1
    /\ UNCHANGED <<task_store, priority_queues, scheduled, processing_queue,
                   dead_letter_queue, q_ret, delivered, stray>>

\* TaskQueue.__init__ on an empty store
InitQueue ==
    /\ now = 0
    /\ task_store = <<>>
    /\ priority_queues = [p \in TaskPriority |-> <<>>]
    /\ scheduled = [p \in TaskPriority |-> {}]
    /\ processing_queue = <<>>
    /\ dead_letter_queue = <<>>
    /\ q_ret = [op |-> "init", id |-> NoTask, priority |-> 0]
    /\ delivered = [i \in TaskIds |-> 0]
    /\ stray = 0

\* the arguments enqueue is called with
ScheduleArgs == {None} \cup { Some(t) : t \in 1..MaxSchedule }

EnqueueAny ==
    /\ \E id \in TaskIds, p \in TaskPriority, s \in ScheduleArgs, m \in 0..MaxRetriesArg :
          Enqueue(id, p, s, m)

\* A caller of complete / fail: any id, known or not. A call for a task that is
\* not in the processing list is counted, and the model follows MaxStray of them.
Delivered(id) == id \in Range(processing_queue)

CountStray(id) ==
    IF Delivered(id) THEN stray' = stray
    ELSE stray < MaxStray /\ stray' = stray + 1

CallComplete == \E id \in TaskIds : Complete(id) /\ CountStray(id)

CallFail == \E id \in TaskIds : Fail(id) /\ CountStray(id)


\* A worker: it answers in complete or fail the tasks dequeue gave it, and only
\* those
WorkerComplete == \E id \in TaskIds : Delivered(id) /\ Complete(id) /\ UNCHANGED stray

WorkerFail == \E id \in TaskIds : Delivered(id) /\ Fail(id) /\ UNCHANGED stray

WorkerAnswer == WorkerComplete \/ WorkerFail

\* The clock of a worker's run: it keeps advancing while a scheduled task waits
\* for its due time
Waiting == \E p \in TaskPriority : \E e \in scheduled[p] : e[2] > now

TickWorker ==
    /\ now < MaxClock \/ Waiting
    /\ now' = now + 1
    /\ UNCHANGED <<task_store, priority_queues, scheduled, processing_queue,
                   dead_letter_queue, q_ret, delivered, stray>>

(***************************************************************************)
(* Two workers in dequeue, one store command at a time (task_queue.py      *)
(* 157-182). Each redis command is atomic; a worker may be overtaken        *)
(* between any two of its commands.                                        *)
(***************************************************************************)
VARIABLES
    workers,    \* each worker's dequeue call: the command it issues next (pc),
                \* the priority of its loop, and its locals task_ids[0] (due),
                \* task_id (id) and task
    got,        \* history: the tasks each worker was delivered and has not
                \* answered
    promoters,  \* history: the workers that moved each id from a scheduled set
                \* to an immediate queue
    pushed      \* history: how many times each id was lpushed on an immediate
                \* queue

racevars == <<workers, got, promoters, pushed>>

Workers == {"w1", "w2"}

\* a worker outside dequeue
Idle == [pc |-> "idle", priority |-> CRITICAL, due |-> NoTask, id |-> NoTask,
         task |-> None]

At(w, pc) == workers[w].pc = pc

Goto(w, next) == workers' = [workers EXCEPT ![w] = next]

\* (mutant) a delivery that also resets the retry count of the record
DeliveredRecordReset(task) ==
    [task EXCEPT !.status = PROCESSING, !.started_at = Stamp, !.retry_count = 0]

\* task.status = PROCESSING; task.started_at = utcnow().isoformat()
DeliveredRecord(task) == [task EXCEPT !.status = PROCESSING, !.started_at = Stamp]

\* the end of one turn of the loop without a task: the next priority, or
\* return None after the last one
NextPriority(w) ==
    IF workers[w].priority = LOW
    THEN /\ Goto(w, Idle)
         /\ q_ret' = [op |-> "dequeue", id |-> NoTask, priority |-> 0]
    ELSE /\ Goto(w, [Idle EXCEPT !.pc = "zrange", !.priority = workers[w].priority + 1])
         /\ UNCHANGED q_ret

\* zrangebyscore(scheduled, 0, now, count=1), at the start of a call too
ZRangeByScore(w) ==
    /\ At(w, "idle") \/ At(w, "zrange")
    /\ LET p == IF At(w, "idle") THEN CRITICAL ELSE workers[w].priority
           first == ZRangeByScoreFirst(scheduled[p], now)
       IN  IF first = {}
           THEN Goto(w, [Idle EXCEPT !.pc = "rpop", !.priority = p])
           ELSE Goto(w, [Idle EXCEPT !.pc = "zrem", !.priority = p,
                                     !.due = (CHOOSE e \in first : TRUE)[1]])
    /\ UNCHANGED <<qvars, got, promoters, pushed>>

\* zrem(scheduled, task_id)
ZRemDue(w) ==
    /\ At(w, "zrem")
    /\ scheduled' = [scheduled EXCEPT ![workers[w].priority] = ZRem(@, workers[w].due)]
    /\ Goto(w, [workers[w] EXCEPT !.pc = "lpush"])
    /\ UNCHANGED <<now, task_store, priority_queues, processing_queue,
                   dead_letter_queue, q_ret, delivered, stray, got, promoters, pushed>>

\* lpush(queue_key, task_id)
LPushDue(w) ==
    /\ At(w, "lpush")
    /\ priority_queues' = [priority_queues EXCEPT ![workers[w].priority] =
                              LPush(@, workers[w].due)]
    /\ promoters' = [promoters EXCEPT ![workers[w].due] = @ \cup {w}]
    /\ pushed' = [pushed EXCEPT ![workers[w].due] = @ + 1]
    /\ Goto(w, [workers[w] EXCEPT !.pc = "rpop"])
    /\ UNCHANGED <<now, task_store, scheduled, processing_queue,
                   dead_letter_queue, q_ret, delivered, stray, got>>

\* rpop(queue_key)
RPop(w) ==
    /\ At(w, "rpop")
    /\ LET p == workers[w].priority
       IN  IF priority_queues[p] = <<>>
           THEN NextPriority(w) /\ UNCHANGED priority_queues
           ELSE /\ priority_queues' = [priority_queues EXCEPT ![p] = RPopRest(@)]
                /\ Goto(w, [Idle EXCEPT !.pc = "hget", !.priority = p,
                                        !.id = RPopValue(priority_queues[p])])
                /\ UNCHANGED q_ret
    /\ UNCHANGED <<now, task_store, scheduled, processing_queue,
                   dead_letter_queue, delivered, stray, got, promoters, pushed>>

\* hget(task_store, task_id) and Task.from_dict
HGet(w) ==
    /\ At(w, "hget")
    /\ IF Known(workers[w].id)
       THEN /\ Goto(w, [workers[w] EXCEPT !.pc = "hset",
                                          !.task = Some(get_task(workers[w].id))])
            /\ UNCHANGED q_ret
       ELSE NextPriority(w)
    /\ UNCHANGED <<now, task_store, priority_queues, scheduled, processing_queue,
                   dead_letter_queue, delivered, stray, got, promoters, pushed>>

\* hset(task_store, task_id, ...) of the record read by hget
HSet(w) ==
    /\ At(w, "hset")
    /\ task_store' = StorePut(task_store, DeliveredRecord(workers[w].task[1]))
    /\ Goto(w, [workers[w] EXCEPT !.pc = "track"])
    /\ UNCHANGED <<now, priority_queues, scheduled, processing_queue,
                   dead_letter_queue, q_ret, delivered, stray, got, promoters, pushed>>

\* lpush(processing_queue, task_id); return task
LPushProcessing(w) ==
    /\ At(w, "track")
    /\ processing_queue' = LPush(processing_queue, workers[w].id)
    /\ q_ret' = [op |-> "dequeue", id |-> workers[w].id,
                 priority |-> workers[w].task[1].priority]
    /\ delivered' = [delivered EXCEPT ![workers[w].id] = @ + 1]
    /\ got' = [got EXCEPT ![w] = @ \cup {workers[w].id}]
    /\ Goto(w, Idle)
    /\ UNCHANGED <<now, task_store, priority_queues, scheduled, dead_letter_queue,
                   stray, promoters, pushed>>

AllIdle == \A w \in Workers : At(w, "idle")

\* a producer next to the workers, enqueueing at two of the priorities
EnqueueBeside ==
    /\ \E id \in TaskIds, p \in {HIGH, NORMAL}, s \in ScheduleArgs :
          /\ Enqueue(id, p, s, MaxRetriesArg)
          /\ pushed' = [pushed EXCEPT ![id] =
                           IF id \in Range(priority_queues'[p]) THEN 1 ELSE 0]
    /\ UNCHANGED <<workers, got, promoters>>

\* a worker fails a task it holds, between two dequeue calls
FailBetweenCalls ==
    /\ AllIdle
    /\ \E w \in Workers : \E id \in got[w] :
          /\ Fail(id)
          /\ got' = [v \in Workers |-> got[v] \ {id}]
    /\ UNCHANGED <<stray, workers, promoters, pushed>>

TickBeside == Tick /\ UNCHANGED racevars

InitRace ==
    /\ workers = [w \in Workers |-> Idle]
    /\ got = [w \in Workers |-> {}]
    /\ promoters = [i \in TaskIds |-> {}]
    /\ pushed = [i \in TaskIds |-> 0]

(***************************************************************************)
(* StateMachine, StateMachineManager: src/src/state_machine.py             *)
(***************************************************************************)
VARIABLES
    machines,   \* StateMachineManager.machines: case_id -> StateMachine
    sm_ret,     \* the last state-machine call, its arguments and what it returned
    handler_calls   \* the handler calls made by the last state-machine call

smvars == <<machines, sm_ret, handler_calls>>

CaseIds == 1..MaxCases

\* class CaseState
CaseState == {"PENDING", "INVESTIGATING", "VALIDATING", "REMEDIATING",
              "RESOLVED", "FAILED", "CANCELLED"}

\* StateMachine.VALID_TRANSITIONS
VALID_TRANSITIONS ==
    [s \in CaseState |->
        CASE s = "PENDING" -> {"INVESTIGATING", "CANCELLED"}
          [] s = "INVESTIGATING" -> {"VALIDATING", "FAILED", "CANCELLED"}
          [] s = "VALIDATING" -> {"REMEDIATING", "FAILED", "CANCELLED"}
          [] s = "REMEDIATING" -> {"RESOLVED", "FAILED", "CANCELLED"}
          [] OTHER -> {}]

\* (mutant) a validation that lets a case skip a phase
IsValidTransitionSkipping(from_state, to_state) ==
    \/ to_state \in VALID_TRANSITIONS[from_state]
    \/ from_state = "PENDING" /\ to_state = "VALIDATING"

\* (mutant) a validation that lets a failed case be investigated again
IsValidTransitionReopening(from_state, to_state) ==
    \/ to_state \in VALID_TRANSITIONS[from_state]
    \/ from_state = "FAILED" /\ to_state = "INVESTIGATING"

\* (mutant) a validation that lets a remediation go back to validation
IsValidTransitionRevalidating(from_state, to_state) ==
    \/ to_state \in VALID_TRANSITIONS[from_state]
    \/ from_state = "REMEDIATING" /\ to_state = "VALIDATING"

\* StateMachine._is_valid_transition
is_valid_transition(from_state, to_state) ==
    to_state \in VALID_TRANSITIONS[from_state]

\* StateMachine.__init__
NewMachine(case_id, initial_state) ==
    [case_id |-> case_id, current_state |-> initial_state, transitions |-> <<>>,
     state_handlers |-> [s \in CaseState |-> <<>>]]

\* The handlers a caller registers, by what a call handler(machine) does: a
\* function that returns, a function that raises an Exception, and an
\* "async def" function, whose call returns a coroutine. A function object has
\* no __await__ attribute, so transition calls all three as handler(self) and
\* awaits nothing: the body of an async handler does not run. Handlers only
\* read the machine.
Handlers == {"returns", "raises", "async"}

\* StateMachine.register_handler
register_handler(machine, state, handler) ==
    [machine EXCEPT !.state_handlers[state] = Append(@, handler)]

\* (mutant) the handler loop of transition without its try/except: the first
\* handler that raises ends the loop
HandlerCallsAborting(handlers, machine) ==
    LET raising == { i \in 1..Len(handlers) : handlers[i] = "raises" }
        last == IF raising = {} THEN Len(handlers)
                ELSE CHOOSE i \in raising : \A j \in raising : i <= j
    IN  [i \in 1..last |->
            [handler |-> handlers[i], state_seen |-> machine.current_state,
             body_ran |-> handlers[i] # "async"]]

\* the handler loop of transition: every handler of the list is called with
\* the machine, in order; an Exception it raises is caught and logged
HandlerCalls(handlers, machine) ==
    [i \in 1..Len(handlers) |->
        [handler |-> handlers[i], state_seen |-> machine.current_state,
         body_ran |-> handlers[i] # "async"]]

\* StateMachine.is_terminal
is_terminal(machine) ==
    machine.current_state \in {"RESOLVED", "FAILED", "CANCELLED"}

\* (mutant) a transition that keeps only the latest record
TransitionKeepingLatest(machine, new_state) ==
    IF ~is_valid_transition(machine.current_state, new_state)
    THEN [machine |-> machine, ret |-> FALSE, calls |-> <<>>]
    ELSE LET m == [machine EXCEPT
                      !.transitions = <<[from_state |-> machine.current_state,
                                         to_state |-> new_state]>>,
                      !.current_state = new_state]
         IN  [machine |-> m, ret |-> TRUE,
              calls |-> HandlerCalls(m.state_handlers[new_state], m)]

\* StateMachine.transition: the machine after the call, the value returned and
\* the handler calls made
transition(machine, new_state) ==
    IF ~is_valid_transition(machine.current_state, new_state)
    THEN [machine |-> machine, ret |-> FALSE, calls |-> <<>>]
    ELSE LET m == [machine EXCEPT
                      !.transitions = Append(@, [from_state |-> machine.current_state,
                                                 to_state |-> new_state]),
                      !.current_state = new_state]
         IN  [machine |-> m, ret |-> TRUE,
              calls |-> HandlerCalls(m.state_handlers[new_state], m)]

\* (mutant) create_machine that builds a new machine for a case_id it holds
CreateMachineReplacing(ms, case_id, initial_state) ==
    [c \in DOMAIN ms \cup {case_id} |->
        IF c = case_id THEN NewMachine(case_id, initial_state) ELSE ms[c]]

\* StateMachineManager.create_machine: the machines after the call
create_machine(ms, case_id, initial_state) ==
    IF case_id \in DOMAIN ms THEN ms
    ELSE [c \in DOMAIN ms \cup {case_id} |->
            IF c = case_id THEN NewMachine(case_id, initial_state) ELSE ms[c]]

\* StateMachineManager.create_machine
CreateMachine(case_id, initial_state) ==
    /\ machines' = create_machine(machines, case_id, initial_state)
    /\ sm_ret' = [op |-> "create_machine", case_id |-> case_id,
                  state |-> initial_state, ret |-> TRUE]
    /\ handler_calls' = <<>>

\* the number of handlers registered on a machine
HandlerCount(machine) ==
    LET n(s) == Len(machine.state_handlers[s])
    IN  n("PENDING") + n("INVESTIGATING") + n("VALIDATING") + n("REMEDIATING")
          + n("RESOLVED") + n("FAILED") + n("CANCELLED")

\* get_machine(case_id).register_handler(state, handler)
RegisterHandler(case_id, state, handler) ==
    /\ case_id \in DOMAIN machines
    /\ HandlerCount(machines[case_id]) < MaxHandlers
    /\ machines' = [machines EXCEPT
                        ![case_id] = register_handler(@, state, handler)]
    /\ sm_ret' = [op |-> "register_handler", case_id |-> case_id,
                  state |-> state, ret |-> TRUE]
    /\ handler_calls' = <<>>

\* StateMachineManager.transition
Transition(case_id, new_state) ==
    IF case_id \notin DOMAIN machines
    THEN /\ sm_ret' = [op |-> "transition", case_id |-> case_id,
                       state |-> new_state, ret |-> FALSE]
         /\ handler_calls' = <<>>
         /\ UNCHANGED machines
    ELSE LET r == transition(machines[case_id], new_state)
         IN  /\ machines' = [machines EXCEPT ![case_id] = r.machine]
             /\ sm_ret' = [op |-> "transition", case_id |-> case_id,
                           state |-> new_state, ret |-> r.ret]
             /\ handler_calls' = r.calls

\* machine.is_terminal() of a case the manager holds
IsTerminal(case_id) ==
    /\ case_id \in DOMAIN machines
    /\ sm_ret' = [op |-> "is_terminal", case_id |-> case_id,
                  state |-> machines[case_id].current_state,
                  ret |-> is_terminal(machines[case_id])]
    /\ handler_calls' = <<>>
    /\ UNCHANGED machines

\* StateMachineManager.__init__
InitSM ==
    /\ machines = <<>>
    /\ sm_ret = [op |-> "init", case_id |-> 0, state |-> "PENDING", ret |-> FALSE]
    /\ handler_calls = <<>>

CreateMachineAny == \E c \in CaseIds, s \in CaseState : CreateMachine(c, s)

TransitionAny == \E c \in CaseIds, s \in CaseState : Transition(c, s)

IsTerminalAny == \E c \in CaseIds : IsTerminal(c)

\* handlers are registered for the states a machine enters
RegisterHandlerAny ==
    \E c \in CaseIds, s \in CaseState, h \in Handlers : RegisterHandler(c, s, h)

(***************************************************************************)
(* RetryPolicy (orchestration_engine.py)                                   *)
(* Delays are kept in hundredths of a second, so that the product of a     *)
(* whole number of seconds and a jitter factor given in percent is exact.  *)
(***************************************************************************)
VARIABLES
    delay_policy,   \* a RetryPolicy: the fields get_delay reads
    delays          \* attempt -> what the last get_delay(attempt) returned

delayvars == <<delay_policy, delays>>

DefaultInitialDelay == 1
DefaultMaxDelay == 60
DefaultExponentialBase == 2

Attempts == 0..MaxAttempt

\* the values random.uniform(0.8, 1.2) takes, in percent: the two ends and
\* the middle of the interval
JitterFactors == {80, 100, 120}

NoJitter == 100

\* RetryPolicy.__init__
RetryPolicy(initial_delay, max_delay, exponential_base, jitter) ==
    [initial_delay |-> initial_delay, max_delay |-> max_delay,
     exponential_base |-> exponential_base, jitter |-> jitter]

\* min(initial_delay * exponential_base ** attempt, max_delay), in seconds
CappedDelay(policy, attempt) ==
    Min(policy.initial_delay * Pow(policy.exponential_base, attempt),
        policy.max_delay)

\* (mutant) get_delay without the cap of max_delay
GetDelayUncapped(policy, attempt, factor) ==
    policy.initial_delay * Pow(policy.exponential_base, attempt)
        * (IF policy.jitter THEN factor ELSE NoJitter)

\* get_delay(attempt), factor the value random.uniform returns when jitter is
\* set; the result is in hundredths of a second
get_delay(policy, attempt, factor) ==
    CappedDelay(policy, attempt) * (IF policy.jitter THEN factor ELSE NoJitter)

\* RetryPolicy(initial_delay=, max_delay=, exponential_base=, jitter=)
NewRetryPolicy(initial_delay, max_delay, exponential_base, jitter) ==
    /\ delay_policy' = RetryPolicy(initial_delay, max_delay, exponential_base, jitter)
    /\ delays' = [n \in Attempts |-> None]

\* policy.get_delay(attempt)
GetDelay(attempt) ==
    \E factor \in JitterFactors :
        /\ delays' = [delays EXCEPT ![attempt] =
                          Some(get_delay(delay_policy, attempt, factor))]
        /\ UNCHANGED delay_policy

\* RetryPolicy()
InitDelay ==
    /\ delay_policy = RetryPolicy(DefaultInitialDelay, DefaultMaxDelay,
                                  DefaultExponentialBase, TRUE)
    /\ delays = [n \in Attempts |-> None]

NewRetryPolicyAny ==
    \E i \in 1..MaxInitialDelay, m \in 1..MaxDelay, b \in 1..MaxBase, j \in BOOLEAN :
        NewRetryPolicy(i, m, b, j)

GetDelayAny == \E n \in Attempts : GetDelay(n)

(***************************************************************************)
(* CircuitBreaker (orchestration_engine.py)                                *)
(***************************************************************************)
VARIABLES
    breaker,        \* the fields of one CircuitBreaker
    time,           \* time.time(), in seconds
    cb_ret,         \* the last step on the breaker and what the call returned
    streak,         \* consecutive record_failure calls, the first on a closed breaker
    probe_successes,    \* record_success calls since the breaker last entered
                        \* half_open, with no record_failure since
    failures_since_closed   \* record_failure calls since the breaker was created
                            \* or last moved to closed

cbvars == <<breaker, time, cb_ret, streak, probe_successes, failures_since_closed>>

\* defaults of CircuitBreaker.__init__
DefaultFailureThreshold == 5
DefaultSuccessThreshold == 2
DefaultTimeout == 60

\* CircuitBreaker.__init__
CircuitBreaker(failure_threshold, success_threshold, timeout) ==
    [failure_threshold |-> failure_threshold,
     success_threshold |-> success_threshold,
     timeout |-> timeout,
     failure_count |-> 0,
     success_count |-> 0,
     last_failure_time |-> None,
     state |-> "closed"]

\* (mutant) record_success that also clears the failures of a closed breaker,
\* as a breaker counting consecutive failures would
RecordSuccessResetting(b) ==
    IF b.state = "half_open"
    THEN IF b.success_count + 1 >= b.success_threshold
         THEN [b EXCEPT !.state = "closed", !.failure_count = 0, !.success_count = 0]
         ELSE [b EXCEPT !.success_count = @ + 1]
    ELSE IF b.state = "closed" THEN [b EXCEPT !.failure_count = 0]
    ELSE b

\* (mutant) record_success that closes a half-open breaker at the first success
RecordSuccessClosingAtOnce(b) ==
    IF b.state = "half_open"
    THEN [b EXCEPT !.state = "closed", !.failure_count = 0, !.success_count = 0]
    ELSE b

\* record_success: only a half-open breaker counts successes
record_success(b) ==
    IF b.state = "half_open"
    THEN IF b.success_count + 1 >= b.success_threshold
         THEN [b EXCEPT !.state = "closed", !.failure_count = 0, !.success_count = 0]
         ELSE [b EXCEPT !.success_count = @ + 1]
    ELSE b

\* (mutant) record_failure that keeps the old last_failure_time of a
\* half-open breaker
RecordFailureKeepingClock(b, t) ==
    [b EXCEPT !.failure_count = @ + 1,
              !.last_failure_time = IF b.state = "half_open" THEN @ ELSE Some(t),
              !.state = IF b.failure_count + 1 >= b.failure_threshold THEN "open" ELSE @]

\* record_failure at time t
record_failure(b, t) ==
    [b EXCEPT !.failure_count = @ + 1,
              !.last_failure_time = Some(t),
              !.state = IF b.failure_count + 1 >= b.failure_threshold THEN "open" ELSE @]

\* (mutant) the test of the open branch of can_attempt with >= for >
TimeoutElapsedInclusive(b, t) == t - b.last_failure_time[1] >= b.timeout

\* the test of the open branch of can_attempt
TimeoutElapsed(b, t) == t - b.last_failure_time[1] > b.timeout

\* can_attempt at time t: the breaker after the call and the value returned
can_attempt(b, t) ==
    IF b.state = "closed"
    THEN [breaker |-> b, ret |-> TRUE]
    ELSE IF b.state = "open"
    THEN IF TimeoutElapsed(b, t)
         THEN [breaker |-> [b EXCEPT !.state = "half_open", !.success_count = 0],
               ret |-> TRUE]
         ELSE [breaker |-> b, ret |-> FALSE]
    ELSE [breaker |-> b, ret |-> TRUE]

\* CircuitBreaker(failure_threshold, success_threshold, timeout)
Construct(failure_threshold, success_threshold, timeout) ==
    /\ breaker' = CircuitBreaker(failure_threshold, success_threshold, timeout)
    /\ cb_ret' = [op |-> "init", ret |-> None]
    /\ streak' = 0
    /\ probe_successes' = 0
    /\ failures_since_closed' = 0
    /\ UNCHANGED time

RecordSuccess ==
    /\ breaker' = record_success(breaker)
    /\ cb_ret' = [op |-> "record_success", ret |-> None]
    /\ streak' = 0
    /\ probe_successes' = IF breaker.state = "half_open" THEN probe_successes + 1
                          ELSE probe_successes
    /\ failures_since_closed' =
           IF breaker.state # "closed" /\ breaker'.state = "closed" THEN 0
           ELSE failures_since_closed
    /\ UNCHANGED time

RecordFailure ==
    /\ breaker.failure_count < MaxFailures
    /\ breaker' = record_failure(breaker, time)
    /\ cb_ret' = [op |-> "record_failure", ret |-> None]
    /\ streak' = IF streak > 0 \/ breaker.state = "closed" THEN streak + 1 ELSE 0
    /\ probe_successes' = 0
    /\ failures_since_closed' = failures_since_closed + 1
    /\ UNCHANGED time

CanAttempt ==
    /\ breaker' = can_attempt(breaker, time).breaker
    /\ cb_ret' = [op |-> "can_attempt", ret |-> Some(can_attempt(breaker, time).ret)]
    /\ streak' = 0
    /\ probe_successes' = IF breaker.state = "open" /\ can_attempt(breaker, time).ret
                          THEN 0 ELSE probe_successes
    /\ UNCHANGED <<time, failures_since_closed>>

\* time.time() advances
TickTime ==
    /\ time < MaxTime
    /\ time' = time + 1
    /\ cb_ret' = [op |-> "tick", ret |-> None]
    /\ UNCHANGED <<breaker, streak, probe_successes, failures_since_closed>>

InitCB ==
    /\ breaker = CircuitBreaker(DefaultFailureThreshold, DefaultSuccessThreshold,
                                DefaultTimeout)
    /\ time = 0
    /\ cb_ret = [op |-> "init", ret |-> None]
    /\ streak = 0
    /\ probe_successes = 0
    /\ failures_since_closed = 0

ConstructAny ==
    \E ft \in 1..MaxThreshold, st \in 1..MaxThreshold, to \in 1..MaxTimeout :
        Construct(ft, st, to)

(***************************************************************************)
(* OrchestrationEngine.process_alert and close_alert                       *)
(* (orchestration_engine.py). The header of                                *)
(* _fetch_predictive_propositions_with_retry (line 262) is indented one    *)
(* level too deep in the source, which does not compile as shipped; the    *)
(* function is read as the method of the class that process_alert calls.   *)
(***************************************************************************)
VARIABLES
    active_alerts,  \* the ids of OrchestrationEngine.active_alerts
    inflight,       \* process_alert calls awaiting the recommender: alert id ->
                    \* [attempt, circuit_breaker] of the retry loop
    eng_ret,        \* the last step of the engine and what the call returned
    proposition_history,    \* the PropositionLog entries, oldest first
    action_history,         \* the execution records, oldest first
    execution_record,       \* what the last apply_proposition call returned
    fetch_log,      \* history: what the recommender answered to each POST of the
                    \* last process_alert call for an alert, oldest first
    fetch_failures  \* history: the POSTs that ended in an exception or a
                    \* timeout, counted up to failure_threshold

histvars == <<proposition_history, action_history, execution_record>>

fetchvars == <<fetch_log, fetch_failures>>

engvars == <<active_alerts, inflight, eng_ret, histvars, fetchvars>>

AlertIds == 1..MaxAlerts

\* max_retries of the RetryPolicy _fetch_predictive_propositions_with_retry builds
FetchMaxRetries == 3

\* what the recommender does with one POST: a 200 or another status with a
\* body of some "actions", an exception of the client, or a timeout
RecommenderOutcomes ==
    {[kind |-> k, actions |-> n] : k \in {"ok", "non200"}, n \in 0..MaxProps}
        \cup {[kind |-> k, actions |-> 0] : k \in {"exception", "timeout"}}

\* one PredictiveProposition per action of the body
Propositions(actions) == [i \in 1..actions |-> i]

\* (mutant) a fetch that trusts the body whatever the status code is
FetchIgnoringStatus(outcome) ==
    [raised |-> FALSE, propositions |-> Propositions(outcome.actions)]

\* _fetch_predictive_propositions: every exception is caught, and every
\* status but 200 gives the empty list
fetch_predictive_propositions(outcome) ==
    [raised |-> FALSE,
     propositions |-> IF outcome.kind = "ok" THEN Propositions(outcome.actions)
                      ELSE <<>>]

EngRet(op, alert_id, status, propositions, served) ==
    [op |-> op, alert_id |-> alert_id, status |-> status,
     propositions |-> propositions, proposition_count |-> Len(propositions),
     served |-> served]

Drop(f, k) == [x \in DOMAIN f \ {k} |-> f[x]]

\* process_alert up to its first await: the alert is registered, the retry
\* wrapper builds its own breaker and consults it, the first POST is sent
ProcessAlertBegin(alert_id) ==
    /\ alert_id \notin DOMAIN inflight
    /\ UNCHANGED <<histvars, fetch_failures>>
    /\ fetch_log' = [fetch_log EXCEPT ![alert_id] = <<>>]
    /\ active_alerts' = active_alerts \cup {alert_id}
    /\ LET circuit_breaker == CircuitBreaker(DefaultFailureThreshold,
                                             DefaultSuccessThreshold, DefaultTimeout)
           r == can_attempt(circuit_breaker, time)
       IN  IF ~r.ret
           THEN /\ eng_ret' = EngRet("process_alert", alert_id, "processed", <<>>, FALSE)
                /\ UNCHANGED inflight
           ELSE /\ inflight' = (alert_id :> [attempt |-> 0, circuit_breaker |-> r.breaker])
                                    @@ inflight
                /\ eng_ret' = EngRet("begin", alert_id, "", <<>>, FALSE)

\* the recommender answers the POST of one call: the body of the retry loop
\* and the rest of process_alert
RecommenderAnswers(alert_id, outcome) ==
    /\ alert_id \in DOMAIN inflight
    /\ UNCHANGED <<active_alerts, histvars>>
    /\ fetch_log' = [fetch_log EXCEPT ![alert_id] = Append(@, outcome.kind)]
    /\ fetch_failures' = IF outcome.kind \in {"exception", "timeout"}
                         THEN Min(fetch_failures + 1, DefaultFailureThreshold)
                         ELSE fetch_failures
    /\ LET call == inflight[alert_id]
           f == fetch_predictive_propositions(outcome)
           failed == record_failure(call.circuit_breaker, time)
       IN  IF ~f.raised
           THEN /\ inflight' = Drop(inflight, alert_id)
                /\ eng_ret' = EngRet("process_alert", alert_id, "processed",
                                     f.propositions, outcome.kind = "ok")
           ELSE IF call.attempt < FetchMaxRetries - 1
           THEN /\ inflight' = [inflight EXCEPT ![alert_id] =
                                    [attempt |-> call.attempt + 1,
                                     circuit_breaker |-> failed]]
                /\ eng_ret' = EngRet("retry", alert_id, "", <<>>, FALSE)
           ELSE /\ inflight' = Drop(inflight, alert_id)
                /\ eng_ret' = EngRet("process_alert", alert_id, "processed", <<>>, FALSE)

\* (mutant) close_alert that drops the proposition logs of the alert it
\* closes
CloseAlertForgetting(alert_id) ==
    /\ UNCHANGED <<inflight, action_history, execution_record, fetchvars>>
    /\ proposition_history' =
          SelectSeq(proposition_history, LAMBDA log : log.alert_id # alert_id)
    /\ IF alert_id \in active_alerts
       THEN /\ active_alerts' = active_alerts \ {alert_id}
            /\ eng_ret' = EngRet("close_alert", alert_id, "closed", <<>>, FALSE)
       ELSE /\ UNCHANGED active_alerts
            /\ eng_ret' = EngRet("close_alert", alert_id, "error", <<>>, FALSE)

\* close_alert
CloseAlert(alert_id) ==
    /\ UNCHANGED <<inflight, histvars, fetchvars>>
    /\ IF alert_id \in active_alerts
       THEN /\ active_alerts' = active_alerts \ {alert_id}
            /\ eng_ret' = EngRet("close_alert", alert_id, "closed", <<>>, FALSE)
       ELSE /\ UNCHANGED active_alerts
            /\ eng_ret' = EngRet("close_alert", alert_id, "error", <<>>, FALSE)

\* class PropositionDecision
PropositionDecision == {"accepted", "rejected", "ignored", "pending"}

\* the action_type of the propositions applied: one with an executor method,
\* the one answered in place, and one _execute_by_type does not know
ActionTypes == {"auto_fix", "ignore", "restart"}

\* a PredictiveProposition: its id and its action_type
PredictiveProposition(action_type) == [id |-> action_type, action_type |-> action_type]

\* PropositionLog(...) as apply_proposition builds it; request_id and the time
\* stamps are carried along and never read
PropositionLog(alert_id, proposition, user_decision) ==
    [alert_id |-> alert_id, proposition_id |-> proposition.id,
     user_decision |-> user_decision,
     decision_timestamp |-> IF user_decision # "pending" THEN Stamp ELSE None]

\* _execute_by_type with _execute_auto_fix, _execute_review, _execute_escalation
execute_by_type(proposition) ==
    CASE proposition.action_type = "auto_fix" -> [status |-> "success", type |-> "auto_fix"]
      [] proposition.action_type = "manual_review" ->
            [status |-> "success", type |-> "manual_review"]
      [] proposition.action_type = "escalate" -> [status |-> "success", type |-> "escalation"]
      [] proposition.action_type = "ignore" -> [status |-> "success", type |-> "ignore"]
      [] OTHER -> [status |-> "unknown", type |-> "none"]

\* (mutant) the status of the execution record taken from the decision as it is
RecordStatusOfDecision(user_decision) ==
    IF user_decision = "accepted" THEN "executed" ELSE user_decision

\* ActionStatus.EXECUTED.value if accepted else ActionStatus.REJECTED.value
RecordStatus(user_decision) ==
    IF user_decision = "accepted" THEN "executed" ELSE "rejected"

\* the execution record apply_proposition returns: execution_result is set
\* only when the proposition was executed
ExecutionRecord(alert_id, proposition, user_decision) ==
    [alert_id |-> alert_id, proposition_id |-> proposition.id,
     user_decision |-> user_decision,
     status |-> RecordStatus(user_decision),
     execution_result |-> IF user_decision = "accepted"
                          THEN Some(execute_by_type(proposition)) ELSE None]

\* apply_proposition: it has no await that suspends, the executors return at
\* once
ApplyProposition(alert_id, proposition, user_decision) ==
    /\ UNCHANGED <<active_alerts, inflight, fetchvars>>
    /\ IF alert_id \notin active_alerts
       THEN /\ eng_ret' = EngRet("apply_proposition", alert_id, "error", <<>>, FALSE)
            /\ execution_record' = None
            /\ UNCHANGED <<proposition_history, action_history>>
       ELSE LET record == ExecutionRecord(alert_id, proposition, user_decision)
            IN  /\ Len(proposition_history) < MaxHistory
                /\ proposition_history' =
                      Append(proposition_history,
                             PropositionLog(alert_id, proposition, user_decision))
                /\ action_history' = Append(action_history, record)
                /\ execution_record' = Some(record)
                /\ eng_ret' = EngRet("apply_proposition", alert_id, record.status,
                                     <<>>, FALSE)

\* OrchestrationEngine.__init__
InitEngine ==
    /\ active_alerts = {}
    /\ inflight = <<>>
    /\ eng_ret = EngRet("init", 0, "", <<>>, FALSE)
    /\ proposition_history = <<>>
    /\ action_history = <<>>
    /\ execution_record = None
    /\ fetch_log = [a \in AlertIds |-> <<>>]
    /\ fetch_failures = 0

ProcessAlertAny == \E a \in AlertIds : ProcessAlertBegin(a)

RecommenderAnswersAny ==
    \E a \in AlertIds, outcome \in RecommenderOutcomes : RecommenderAnswers(a, outcome)

CloseAlertAny == \E a \in AlertIds : CloseAlert(a)

ApplyPropositionAny ==
    \E a \in AlertIds, t \in ActionTypes, d \in PropositionDecision :
        ApplyProposition(a, PredictiveProposition(t), d)

(***************************************************************************)
(* WorkflowOrchestrator (workflow_orchestrator.py)                         *)
(***************************************************************************)
VARIABLES
    workflows,          \* WorkflowOrchestrator.workflows: workflow id -> WorkflowInstance
    service_registry,   \* the names of the registered services
    exec,               \* execute_workflow calls suspended in an await: workflow id ->
                        \* [order, idx, attempt, pc, payload]
    wf_ret,             \* the last step of the orchestrator and what the call returned
    sort_in,            \* the steps handed to _topological_sort
    sort_out            \* what _topological_sort gave for sort_in

wfvars == <<workflows, service_registry, exec, wf_ret>>

sortvars == <<sort_in, sort_out>>

\* one workflow is followed; calls also name an id that was never created
WorkflowIds == {"wf-1"}

UnknownWorkflow == "wf-0"

Service == "svc"

\* RetryPolicy.__init__: max_retries defaults to 3
DefaultMaxRetries == 3

\* the ids of a set, ascending
RECURSIVE Ascending(_)
Ascending(S) ==
    IF S = {} THEN <<>>
    ELSE LET m == CHOOSE x \in S : \A y \in S : x <= y
         IN  <<m>> \o Ascending(S \ {m})

Reverse(s) == [i \in 1..Len(s) |-> s[Len(s) + 1 - i]]

\* WorkflowStep.timeout: 30.0 seconds unless given
DefaultStepTimeout == 30

\* the payload a step is created with: one entry of its own
StepPayload == [event |-> "own"]

\* WorkflowStep: a step's id is its position in the list given to
\* create_workflow; retry_policy is None or the policy's max_retries; timeout
\* is the field of the dataclass, which no line of the orchestrator reads
WorkflowStep(depends_on, retry_policy) ==
    [service |-> Service, depends_on |-> depends_on, retry_policy |-> retry_policy,
     timeout |-> DefaultStepTimeout, payload |-> StepPayload]

\* the steps dict of n steps: step i depends on the ids of dep_sets[i], listed
\* ascending or descending
Steps(n, dep_sets, descending, retry_policy) ==
    [i \in 1..n |->
        WorkflowStep(IF descending THEN Reverse(Ascending(dep_sets[i]))
                     ELSE Ascending(dep_sets[i]),
                     retry_policy)]

\* retry_policy of the steps executed: None or RetryPolicy(max_retries)
RetryPolicies == {None} \cup {Some(k) : k \in 0..MaxStepRetries}

StepIdsOf(steps) == DOMAIN steps

\* (mutant) a sort that appends a step before it visits the step's dependencies
RECURSIVE VisitPreOrder(_, _, _), VisitAllPreOrder(_, _, _, _)
VisitPreOrder(steps, st, step_id) ==
    IF st.raised \/ step_id \in st.visited THEN st
    ELSE IF step_id \notin StepIdsOf(steps)
    THEN [st EXCEPT !.visited = @ \cup {step_id}, !.raised = TRUE]
    ELSE VisitAllPreOrder(steps,
                          [st EXCEPT !.visited = @ \cup {step_id},
                                     !.order = Append(@, step_id)],
                          steps[step_id].depends_on, 1)

VisitAllPreOrder(steps, st, dep_ids, i) ==
    IF i > Len(dep_ids) THEN st
    ELSE VisitAllPreOrder(steps, VisitPreOrder(steps, st, dep_ids[i]), dep_ids, i + 1)

\* (mutant) a sort that raises when it meets a step whose visit is still going
\* on, as a sort with a cycle check would
RECURSIVE VisitRejectingCycles(_, _, _), VisitAllRejectingCycles(_, _, _, _)
VisitRejectingCycles(steps, st, step_id) ==
    IF st.raised THEN st
    ELSE IF step_id \in st.visited
    THEN [st EXCEPT !.raised = step_id \notin Range(st.order)]
    ELSE IF step_id \notin StepIdsOf(steps)
    THEN [st EXCEPT !.visited = @ \cup {step_id}, !.raised = TRUE]
    ELSE LET after == VisitAllRejectingCycles(steps,
                                              [st EXCEPT !.visited = @ \cup {step_id}],
                                              steps[step_id].depends_on, 1)
         IN  IF after.raised THEN after
             ELSE [after EXCEPT !.order = Append(@, step_id)]

VisitAllRejectingCycles(steps, st, dep_ids, i) ==
    IF i > Len(dep_ids) THEN st
    ELSE VisitAllRejectingCycles(steps, VisitRejectingCycles(steps, st, dep_ids[i]),
                                 dep_ids, i + 1)

\* visit of _topological_sort: st holds visited, order and whether
\* workflow.steps[step_id] raised KeyError
RECURSIVE visit(_, _, _), VisitAll(_, _, _, _)
visit(steps, st, step_id) ==
    IF st.raised \/ step_id \in st.visited THEN st
    ELSE IF step_id \notin StepIdsOf(steps)
    THEN [st EXCEPT !.visited = @ \cup {step_id}, !.raised = TRUE]
    ELSE LET after == VisitAll(steps, [st EXCEPT !.visited = @ \cup {step_id}],
                               steps[step_id].depends_on, 1)
         IN  IF after.raised THEN after
             ELSE [after EXCEPT !.order = Append(@, step_id)]

\* the loops over step.depends_on and over workflow.steps
VisitAll(steps, st, dep_ids, i) ==
    IF i > Len(dep_ids) THEN st
    ELSE VisitAll(steps, visit(steps, st, dep_ids[i]), dep_ids, i + 1)

\* _topological_sort: steps are visited in the order of the steps dict
topological_sort(steps) ==
    LET st == VisitAll(steps, [visited |-> {}, order |-> <<>>, raised |-> FALSE],
                       [i \in 1..Len(steps) |-> i], 1)
    IN  [raised |-> st.raised, order |-> IF st.raised THEN <<>> ELSE st.order]

\* WorkflowInstance as create_workflow builds it
WorkflowInstance(steps) ==
    [state |-> "PENDING", steps |-> steps, step_results |-> <<>>, step_status |-> <<>>]

Put(f, k, v) == [x \in DOMAIN f \cup {k} |-> IF x = k THEN v ELSE f[x]]

WfRet(op, workflow_id, ret, order) ==
    [op |-> op, workflow_id |-> workflow_id, ret |-> ret, order |-> order]

\* max_retries of "step.retry_policy or RetryPolicy()"
MaxRetriesOf(step) ==
    IF step.retry_policy = None THEN DefaultMaxRetries ELSE step.retry_policy[1]

\* the result _call_service returns for the action of a step; every step has
\* an action of its own, named here by the step's id
ServiceResult(step_id) == [status |-> "success", action |-> step_id]

\* f"{dep_id}_result"
ResultKey(dep_id) == ToString(dep_id) \o "_result"

\* enriched_payload: a copy of step.payload with the result of every
\* dependency that has one
EnrichedPayload(wf, step) ==
    LET with_result == Range(step.depends_on) \cap DOMAIN wf.step_results
    IN  [k \in DOMAIN step.payload \cup {ResultKey(d) : d \in with_result} |->
            IF \E d \in with_result : ResultKey(d) = k
            THEN wf.step_results[CHOOSE d \in with_result : ResultKey(d) = k]
            ELSE step.payload[k]]

\* the loop of execute_workflow reaches the step at idx of the order: the
\* payload is prepared, then the first attempt starts
BeginStep(wf, order, idx) ==
    [order |-> order, idx |-> idx, attempt |-> 0, pc |-> "call",
     payload |-> EnrichedPayload(wf, wf.steps[order[idx]])]

\* the except branches of execute_workflow once RetryPolicy.execute re-raises:
\* the step is marked, the workflow is FAILED and the exception leaves the call
StepFailed(wf, e, kind) ==
    [wf |-> [wf EXCEPT !.step_status = Put(@, e.order[e.idx],
                                          IF kind = "timeout" THEN "timeout"
                                          ELSE "failed"),
                      !.state = "FAILED"],
     exec |-> None,
     ret |-> IF kind = "timeout" THEN "TimeoutError" ELSE "Exception"]

\* the except branch of RetryPolicy.execute: re-raise on the last attempt,
\* sleep before the next one otherwise
AttemptFailed(wf, e, kind) ==
    IF e.attempt = MaxRetriesOf(wf.steps[e.order[e.idx]])
    THEN StepFailed(wf, e, kind)
    ELSE [wf |-> wf, exec |-> Some([e EXCEPT !.pc = "sleep"]), ret |-> "suspended"]

\* (mutant) an attempt that calls the service without looking it up
StartAttemptUnchecked(wf, e, registry) ==
    [wf |-> wf, exec |-> Some([e EXCEPT !.pc = "call"]), ret |-> "suspended"]

\* one attempt of RetryPolicy.execute up to its await: _call_service raises
\* ValueError at once for a service that is not registered
StartAttempt(wf, e, registry) ==
    IF wf.steps[e.order[e.idx]].service \in registry
    THEN [wf |-> wf, exec |-> Some([e EXCEPT !.pc = "call"]), ret |-> "suspended"]
    ELSE AttemptFailed(wf, e, "error")

\* the step's call returned: result and status are stored, then the next step
\* starts or the workflow is RESOLVED
StepCompleted(wf, e, registry) ==
    LET done == [wf EXCEPT !.step_results = Put(@, e.order[e.idx],
                                                ServiceResult(e.order[e.idx])),
                           !.step_status = Put(@, e.order[e.idx], "completed")]
    IN  IF e.idx = Len(e.order)
        THEN [wf |-> [done EXCEPT !.state = "RESOLVED"], exec |-> None, ret |-> "returned"]
        ELSE StartAttempt(done, BeginStep(done, e.order, e.idx + 1), registry)

\* the effect of a part of execute_workflow on the orchestrator
Resume(workflow_id, r, order) ==
    /\ workflows' = [workflows EXCEPT ![workflow_id] = r.wf]
    /\ exec' = IF r.exec = None THEN Drop(exec, workflow_id)
               ELSE Put(exec, workflow_id, r.exec[1])
    /\ wf_ret' = WfRet("execute_workflow", workflow_id, r.ret, order)

\* register_service
RegisterService ==
    /\ service_registry' = service_registry \cup {Service}
    /\ wf_ret' = WfRet("register_service", UnknownWorkflow, "returned", <<>>)
    /\ UNCHANGED <<workflows, exec>>

\* create_workflow: the id is a fresh uuid
CreateWorkflow(workflow_id, steps) ==
    /\ workflow_id \notin DOMAIN workflows
    /\ workflows' = Put(workflows, workflow_id, WorkflowInstance(steps))
    /\ wf_ret' = WfRet("create_workflow", workflow_id, "returned", <<>>)
    /\ UNCHANGED <<service_registry, exec>>

\* execute_workflow up to its first await
ExecuteWorkflow(workflow_id) ==
    /\ workflow_id \notin DOMAIN exec
    /\ UNCHANGED service_registry
    /\ IF workflow_id \notin DOMAIN workflows
       THEN /\ wf_ret' = WfRet("execute_workflow", workflow_id, "ValueError", <<>>)
            /\ UNCHANGED <<workflows, exec>>
       ELSE LET wf == [workflows[workflow_id] EXCEPT !.state = "INVESTIGATING"]
                sorted == topological_sort(wf.steps)
            IN  IF sorted.raised
                THEN Resume(workflow_id,
                            [wf |-> [wf EXCEPT !.state = "FAILED"], exec |-> None,
                             ret |-> "KeyError"], <<>>)
                ELSE IF sorted.order = <<>>
                THEN Resume(workflow_id,
                            [wf |-> [wf EXCEPT !.state = "RESOLVED"], exec |-> None,
                             ret |-> "returned"], <<>>)
                ELSE Resume(workflow_id,
                            StartAttempt(wf, BeginStep(wf, sorted.order, 1),
                                         service_registry),
                            sorted.order)

\* the awaited service call of a step ends: with a result, with an exception
\* or with asyncio.TimeoutError. _call_service as written sleeps and returns
\* success; the other two outcomes are those of the HTTP call it stands for
\* (the tests patch _call_service to raise).
ServiceReturns(workflow_id, outcome) ==
    /\ workflow_id \in DOMAIN exec
    /\ exec[workflow_id].pc = "call"
    /\ UNCHANGED service_registry
    /\ LET wf == workflows[workflow_id]
           e == exec[workflow_id]
       IN  Resume(workflow_id,
                  IF outcome = "ok" THEN StepCompleted(wf, e, service_registry)
                  ELSE AttemptFailed(wf, e, outcome),
                  e.order)

\* the backoff sleep of RetryPolicy.execute ends: the next attempt starts
SleepEnds(workflow_id) ==
    /\ workflow_id \in DOMAIN exec
    /\ exec[workflow_id].pc = "sleep"
    /\ UNCHANGED service_registry
    /\ LET e == exec[workflow_id]
       IN  Resume(workflow_id,
                  StartAttempt(workflows[workflow_id], [e EXCEPT !.attempt = @ + 1],
                               service_registry),
                  e.order)

\* (mutant) cancel_workflow without the test of the state
CancellableInAnyState(workflow) == TRUE

\* the test of cancel_workflow on the state of the workflow
Cancellable(workflow) == workflow.state \in {"PENDING", "INVESTIGATING"}

\* cancel_workflow
CancelWorkflow(workflow_id) ==
    /\ UNCHANGED <<service_registry, exec>>
    /\ IF workflow_id \in DOMAIN workflows /\ Cancellable(workflows[workflow_id])
       THEN /\ workflows' = [workflows EXCEPT ![workflow_id].state = "FAILED"]
            /\ wf_ret' = WfRet("cancel_workflow", workflow_id, "True", <<>>)
       ELSE /\ UNCHANGED workflows
            /\ wf_ret' = WfRet("cancel_workflow", workflow_id, "False", <<>>)

\* get_workflow_status: the state of the workflow, or ValueError
GetWorkflowStatus(workflow_id) ==
    /\ UNCHANGED <<workflows, service_registry, exec>>
    /\ wf_ret' = IF workflow_id \notin DOMAIN workflows
                 THEN WfRet("get_workflow_status", workflow_id, "ValueError", <<>>)
                 ELSE WfRet("get_workflow_status", workflow_id,
                            workflows[workflow_id].state, <<>>)

\* _topological_sort applied to sort_in
Sort ==
    /\ sort_out' = Some(topological_sort(sort_in))
    /\ UNCHANGED sort_in

\* WorkflowOrchestrator.__init__
InitWF ==
    /\ workflows = <<>>
    /\ service_registry = {}
    /\ exec = <<>>
    /\ wf_ret = WfRet("init", UnknownWorkflow, "returned", <<>>)

InitSort ==
    /\ sort_in = <<>>
    /\ sort_out = None

\* any workflow of up to MaxSteps steps with dependencies over 1..MaxSteps
InitSortAny ==
    /\ \E n \in 1..MaxSteps, descending \in BOOLEAN :
           \E dep_sets \in [1..n -> SUBSET (1..MaxSteps)] :
               sort_in = Steps(n, dep_sets, descending, None)
    /\ sort_out = None

CallerIds == WorkflowIds \cup {UnknownWorkflow}

\* any workflow of up to MaxExecSteps steps with dependencies over
\* 1..MaxExecSteps, every step with the same retry policy
CreateWorkflowAny ==
    \E w \in WorkflowIds, n \in 1..MaxExecSteps, rp \in RetryPolicies :
        \E dep_sets \in [1..n -> SUBSET (1..MaxExecSteps)] :
            CreateWorkflow(w, Steps(n, dep_sets, FALSE, rp))

ExecuteWorkflowAny == \E w \in CallerIds : ExecuteWorkflow(w)

ServiceReturnsAny ==
    \E w \in WorkflowIds, outcome \in {"ok", "error", "timeout"} : ServiceReturns(w, outcome)

SleepEndsAny == \E w \in WorkflowIds : SleepEnds(w)

CancelWorkflowAny == \E w \in CallerIds : CancelWorkflow(w)

\* a second workflow next to the first: one step, one attempt
OtherWorkflow == "wf-2"

BothWorkflows == WorkflowIds \cup {OtherWorkflow}

CreateOtherWorkflow ==
    CreateWorkflow(OtherWorkflow, Steps(1, [i \in 1..1 |-> {}], FALSE, Some(0)))

ExecuteEither == \E w \in BothWorkflows \cup {UnknownWorkflow} : ExecuteWorkflow(w)

ServiceReturnsEither ==
    \E w \in BothWorkflows, outcome \in {"ok", "error", "timeout"} :
        ServiceReturns(w, outcome)

SleepEndsEither == \E w \in BothWorkflows : SleepEnds(w)

GetWorkflowStatusEither ==
    \E w \in BothWorkflows \cup {UnknownWorkflow} : GetWorkflowStatus(w)

(***************************************************************************)
(* RetryPolicy.execute (workflow_orchestrator.py) around any function      *)
(***************************************************************************)
VARIABLES
    retry   \* one call of RetryPolicy.execute: the policy, the position in the
            \* loop, and what the caller and the wrapped function have seen

retryvars == <<retry>>

DefaultBaseDelay == 1

\* RetryPolicy.__init__
WorkflowRetryPolicy(max_retries, base_delay) ==
    [max_retries |-> max_retries, base_delay |-> base_delay]

\* what the wrapped function returns when it succeeds
FuncResult == "success"

\* the exceptions the wrapped function raises
FuncExceptions == {"error", "timeout"}

\* execute(func) entered with this policy: attempt 0 is awaiting func
Executing(policy) ==
    [policy |-> policy, attempt |-> 0, pc |-> "call", calls |-> 1,
     failures |-> <<>>, sleeps |-> <<>>, outcome |-> None]

\* (mutant) the test of the last attempt, one attempt early
LastAttemptEarly(policy, attempt) == attempt + 1 >= policy.max_retries

\* "if attempt == self.max_retries"
LastAttempt(policy, attempt) == attempt = policy.max_retries

\* base_delay * (2 ** attempt)
RetryDelay(policy, attempt) == policy.base_delay * Pow2(attempt)

\* retry_policy.execute(func) is called; range(max_retries + 1) is not empty
Execute(max_retries, base_delay) ==
    /\ retry.pc \in {"idle", "returned", "raised"}
    /\ retry' = Executing(WorkflowRetryPolicy(max_retries, base_delay))

\* the awaited func returns: execute returns its result
FuncReturns ==
    /\ retry.pc = "call"
    /\ retry' = [retry EXCEPT !.pc = "returned", !.outcome = Some(FuncResult)]

\* the awaited func raises an Exception: re-raised on the last attempt, a
\* sleep of base_delay * 2 ** attempt otherwise
FuncRaises(exception) ==
    /\ retry.pc = "call"
    /\ retry' =
          IF LastAttempt(retry.policy, retry.attempt)
          THEN [retry EXCEPT !.pc = "raised", !.outcome = Some(exception),
                             !.failures = Append(@, exception)]
          ELSE [retry EXCEPT !.pc = "sleep",
                             !.failures = Append(@, exception),
                             !.sleeps = Append(@, RetryDelay(retry.policy,
                                                             retry.attempt))]

\* asyncio.sleep(delay) ends: the loop goes to the next attempt and awaits func
RetrySleepEnds ==
    /\ retry.pc = "sleep"
    /\ retry' = [retry EXCEPT !.pc = "call", !.attempt = @ + 1, !.calls = @ + 1]

\* no call of execute yet, on RetryPolicy()
InitRetry ==
    retry = [Executing(WorkflowRetryPolicy(DefaultMaxRetries, DefaultBaseDelay))
                EXCEPT !.pc = "idle", !.calls = 0]

ExecuteAny ==
    \E max_retries \in 0..MaxPolicyRetries, base_delay \in 1..MaxBaseDelay :
        Execute(max_retries, base_delay)

FuncRaisesAny == \E exception \in FuncExceptions : FuncRaises(exception)

(***************************************************************************)
(* Specifications                                                          *)
(***************************************************************************)
vars == <<qvars, smvars, cbvars, engvars, wfvars, sortvars, delayvars, retryvars,
         racevars>>

Init == InitQueue /\ InitSM /\ InitCB /\ InitEngine /\ InitWF /\ InitSort
    /\ InitDelay
    /\ InitRetry
    /\ InitRace

\* the orchestrator is about to sort a workflow
InitSorting == InitQueue /\ InitSM /\ InitCB /\ InitEngine /\ InitWF /\ InitSortAny
    /\ InitDelay
    /\ InitRetry
    /\ InitRace

QueueOnly == UNCHANGED <<smvars, cbvars, engvars, wfvars, sortvars, delayvars, retryvars, racevars>>

SMOnly == UNCHANGED <<qvars, cbvars, engvars, wfvars, sortvars, delayvars, retryvars, racevars>>

CBOnly == UNCHANGED <<qvars, smvars, engvars, wfvars, sortvars, delayvars, retryvars, racevars>>

EngineOnly == UNCHANGED <<qvars, smvars, cbvars, wfvars, sortvars, delayvars, retryvars, racevars>>

WFOnly == UNCHANGED <<qvars, smvars, cbvars, engvars, sortvars, delayvars, retryvars, racevars>>

SortOnly == UNCHANGED <<qvars, smvars, cbvars, engvars, wfvars, delayvars, retryvars, racevars>>

DelayOnly == UNCHANGED <<qvars, smvars, cbvars, engvars, wfvars, sortvars, retryvars, racevars>>

RetryOnly == UNCHANGED <<qvars, smvars, delayvars, cbvars, engvars, wfvars, sortvars, racevars>>

\* the queue and its workers change together
RaceOnly == UNCHANGED <<smvars, cbvars, engvars, wfvars, sortvars, delayvars, retryvars>>

\* any caller of the queue: enqueue, dequeue, complete and fail in any order
NextQueue ==
    \/ EnqueueAny /\ QueueOnly
    \/ Dequeue /\ QueueOnly
    \/ CallComplete /\ QueueOnly
    \/ CallFail /\ QueueOnly
    \/ Tick /\ QueueOnly

SpecQueue == Init /\ [][NextQueue]_vars

\* a producer and a worker on the queue
NextWorker ==
    \/ EnqueueAny /\ QueueOnly
    \/ Dequeue /\ QueueOnly
    \/ WorkerComplete /\ QueueOnly
    \/ WorkerFail /\ QueueOnly
    \/ TickWorker /\ QueueOnly

SpecWorker == Init /\ [][NextWorker]_vars

\* a producer and two workers whose dequeue calls interleave
NextRace ==
    \/ EnqueueBeside /\ RaceOnly
    \/ (\E w \in Workers : ZRangeByScore(w)) /\ RaceOnly
    \/ (\E w \in Workers : ZRemDue(w)) /\ RaceOnly
    \/ (\E w \in Workers : LPushDue(w)) /\ RaceOnly
    \/ (\E w \in Workers : RPop(w)) /\ RaceOnly
    \/ (\E w \in Workers : HGet(w)) /\ RaceOnly
    \/ (\E w \in Workers : HSet(w)) /\ RaceOnly
    \/ (\E w \in Workers : LPushProcessing(w)) /\ RaceOnly
    \/ FailBetweenCalls /\ RaceOnly
    \/ TickBeside /\ RaceOnly

SpecRace == Init /\ [][NextRace]_vars

\* dequeue has a task to return: some priority has an id in its immediate queue
\* or a scheduled id that is due
HasWork ==
    \E p \in TaskPriority :
        priority_queues[p] # <<>> \/ Due(scheduled[p], now) # {}

\* The worker keeps calling dequeue: weak fairness of the dequeue that delivers,
\* written with the state predicate HasWork for its enabling condition.
FairDequeue == []<>(~HasWork) \/ []<><<delivered' # delivered>>_vars

\* the worker keeps calling dequeue and answers every task; the clock advances
SpecWorkerFair ==
    /\ Init /\ [][NextWorker]_vars
    /\ FairDequeue
    /\ WF_vars(WorkerAnswer /\ QueueOnly)
    /\ WF_vars(TickWorker /\ QueueOnly)

\* any caller of a RetryPolicy's get_delay
NextDelay ==
    \/ NewRetryPolicyAny /\ DelayOnly
    \/ GetDelayAny /\ DelayOnly

SpecDelay == Init /\ [][NextDelay]_vars

\* a caller of RetryPolicy.execute and the function it wraps
NextRetry ==
    \/ ExecuteAny /\ RetryOnly
    \/ FuncReturns /\ RetryOnly
    \/ FuncRaisesAny /\ RetryOnly
    \/ RetrySleepEnds /\ RetryOnly

SpecRetry == Init /\ [][NextRetry]_vars

\* propositions are applied to alerts whose process_alert call has begun,
\* and alerts are closed
NextApply ==
    \/ ProcessAlertAny /\ EngineOnly
    \/ CloseAlertAny /\ EngineOnly
    \/ ApplyPropositionAny /\ EngineOnly

SpecApply == Init /\ [][NextApply]_vars

\* any caller of the state machine manager
NextSM ==
    \/ CreateMachineAny /\ SMOnly
    \/ TransitionAny /\ SMOnly
    \/ IsTerminalAny /\ SMOnly

SpecSM == Init /\ [][NextSM]_vars

\* a caller that registers entry handlers on its machines
NextHandlers ==
    \/ CreateMachineAny /\ SMOnly
    \/ RegisterHandlerAny /\ SMOnly
    \/ TransitionAny /\ SMOnly

SpecHandlers == Init /\ [][NextHandlers]_vars

\* any caller of one circuit breaker
NextCB ==
    \/ ConstructAny /\ CBOnly
    \/ RecordSuccess /\ CBOnly
    \/ RecordFailure /\ CBOnly
    \/ CanAttempt /\ CBOnly
    \/ TickTime /\ CBOnly

SpecCB == Init /\ [][NextCB]_vars

\* callers of process_alert and close_alert, and the recommender
NextEngine ==
    \/ ProcessAlertAny /\ EngineOnly
    \/ RecommenderAnswersAny /\ EngineOnly
    \/ CloseAlertAny /\ EngineOnly

SpecEngine == Init /\ [][NextEngine]_vars

\* callers of the workflow orchestrator, and the services its steps call
NextWF ==
    \/ RegisterService /\ WFOnly
    \/ CreateWorkflowAny /\ WFOnly
    \/ ExecuteWorkflowAny /\ WFOnly
    \/ ServiceReturnsAny /\ WFOnly
    \/ SleepEndsAny /\ WFOnly
    \/ CancelWorkflowAny /\ WFOnly

SpecWF == Init /\ [][NextWF]_vars

\* the event loop runs what is ready: a backoff sleep of RetryPolicy.execute
\* ends. Nothing in execute_workflow or _call_service bounds the wait for a
\* service (step.timeout is not passed to asyncio.wait_for), so the answer of
\* a service is not forced.
SpecWFFair == SpecWF /\ WF_vars(SleepEndsAny /\ WFOnly)

\* two workflows side by side, with get_workflow_status
NextWFPair ==
    \/ RegisterService /\ WFOnly
    \/ CreateWorkflowAny /\ WFOnly
    \/ CreateOtherWorkflow /\ WFOnly
    \/ ExecuteEither /\ WFOnly
    \/ ServiceReturnsEither /\ WFOnly
    \/ SleepEndsEither /\ WFOnly
    \/ GetWorkflowStatusEither /\ WFOnly

SpecWFPair == Init /\ [][NextWFPair]_vars

\* _topological_sort on the workflow of sort_in
NextSort == Sort /\ SortOnly

SpecSort == InitSorting /\ [][NextSort]_vars

(***************************************************************************)
(* Claims on the task queue                                                *)
(***************************************************************************)
Task(id) == get_task(id)

InQueue(id) == \E p \in TaskPriority : id \in Range(priority_queues[p])

InScheduled(id) == \E p \in TaskPriority : \E e \in scheduled[p] : e[1] = id

Terminal(id) == Known(id) /\ Task(id).status \in {COMPLETED, DEAD_LETTERED}

\* C1: whenever dequeue returns a task of priority Q, at that moment no more
\* urgent priority has an id in its immediate queue or a scheduled item that is
\* due: of two eligible tasks the more urgent one is delivered first.
C1_PriorityOrder ==
    [][ (q_ret'.op = "dequeue" /\ q_ret'.id # NoTask /\ delivered' # delivered)
          => \A p \in TaskPriority :
                p < q_ret'.priority
                  => /\ priority_queues'[p] = <<>>
                     /\ Due(scheduled'[p], now') = {} ]_vars

\* C1 witness: dequeue has just returned the more urgent of two tasks while the
\* less urgent one is still waiting in its immediate queue.
C1_Witness ==
    /\ q_ret.op = "dequeue" /\ q_ret.id # NoTask
    /\ \E b \in DOMAIN task_store :
          /\ Task(b).priority > q_ret.priority
          /\ b \in Range(priority_queues[Task(b).priority])
          /\ delivered[b] = 0

\* C2 (as claimed): a task with max_retries = N >= 1 that was failed after every
\* delivery is dead-lettered after exactly N+1 deliveries, is in the dead-letter
\* list and in no immediate queue or scheduled set.
C2_DeadLetterAfterNPlusOne ==
    \A id \in DOMAIN task_store :
        (Task(id).status = DEAD_LETTERED /\ Task(id).max_retries >= 1)
          => /\ delivered[id] = Task(id).max_retries + 1
             /\ id \in Range(dead_letter_queue)
             /\ ~InQueue(id) /\ ~InScheduled(id)

\* C3 (as claimed): retry_count <= max_retries while the status is not
\* DEAD_LETTERED, and retry_count = max_retries once it is.
C3_RetryCountBound ==
    \A id \in DOMAIN task_store :
        /\ Task(id).status # DEAD_LETTERED
             => Task(id).retry_count <= Task(id).max_retries
        /\ Task(id).status = DEAD_LETTERED
             => Task(id).retry_count = Task(id).max_retries

\* C4: with a worker that keeps dequeuing and answers every delivered task, and
\* a clock that keeps advancing, every enqueued task eventually is COMPLETED or
\* DEAD_LETTERED.
C4_NoTaskDropped == \A id \in TaskIds : Known(id) ~> Terminal(id)

\* C4 witness: a task was failed, waited for its retry, was delivered a second
\* time and ended; another one ended in the dead letters.
C4_Witness ==
    \E a \in DOMAIN task_store :
        /\ delivered[a] >= 2 /\ Terminal(a)
        /\ \A b \in DOMAIN task_store : Terminal(b)

(***************************************************************************)
(* Claims on the case state machine                                        *)
(***************************************************************************)
\* the adjacency table as the claims state it
ClaimedEdges ==
    { <<"PENDING", "INVESTIGATING">>, <<"PENDING", "CANCELLED">>,
      <<"INVESTIGATING", "VALIDATING">>, <<"INVESTIGATING", "FAILED">>,
      <<"INVESTIGATING", "CANCELLED">>,
      <<"VALIDATING", "REMEDIATING">>, <<"VALIDATING", "FAILED">>,
      <<"VALIDATING", "CANCELLED">>,
      <<"REMEDIATING", "RESOLVED">>, <<"REMEDIATING", "FAILED">>,
      <<"REMEDIATING", "CANCELLED">> }

ClaimedTerminal == {"RESOLVED", "FAILED", "CANCELLED"}

\* the step is a transition(new_state) call on the machine of case c
TransitionCall(c) ==
    /\ sm_ret'.op = "transition" /\ sm_ret'.case_id = c
    /\ c \in DOMAIN machines

\* C5: current_state changes only along edges of the adjacency table; a call for
\* any other pair returns false and leaves current_state and transitions
\* unchanged.
C5_OnlyTableEdges ==
    [][ \A c \in DOMAIN machines :
          /\ c \in DOMAIN machines'
          /\ machines'[c].current_state # machines[c].current_state
               => <<machines[c].current_state, machines'[c].current_state>>
                     \in ClaimedEdges
          /\ (TransitionCall(c)
                /\ <<machines[c].current_state, sm_ret'.state>> \notin ClaimedEdges)
               => /\ sm_ret'.ret = FALSE
                  /\ machines'[c] = machines[c] ]_vars

\* C5 witness: a machine that has moved along an edge has just refused a call.
C5_Witness ==
    /\ sm_ret.op = "transition" /\ sm_ret.ret = FALSE
    /\ sm_ret.case_id \in DOMAIN machines
    /\ Len(machines[sm_ret.case_id].transitions) >= 2
    /\ machines[sm_ret.case_id].current_state = "REMEDIATING"

\* C6: from RESOLVED, FAILED or CANCELLED every transition call returns false
\* and changes nothing; is_terminal() is true in exactly those states; from
\* PENDING one transition reaches only INVESTIGATING or CANCELLED.
C6_TerminalAndPending ==
    /\ [][ \A c \in DOMAIN machines :
             /\ (TransitionCall(c) /\ machines[c].current_state \in ClaimedTerminal)
                  => sm_ret'.ret = FALSE /\ machines'[c] = machines[c]
             /\ (machines[c].current_state = "PENDING"
                   /\ machines'[c].current_state # "PENDING")
                  => machines'[c].current_state \in {"INVESTIGATING", "CANCELLED"}
             /\ sm_ret'.op = "is_terminal" /\ sm_ret'.case_id = c
                  => (sm_ret'.ret <=> machines[c].current_state \in ClaimedTerminal)
         ]_vars
    /\ [](\A c \in DOMAIN machines :
             is_terminal(machines[c])
                <=> machines[c].current_state \in ClaimedTerminal)

\* C6 witness: a machine that left PENDING for INVESTIGATING and then reached
\* FAILED has just refused a call.
C6_Witness ==
    /\ sm_ret.op = "transition" /\ sm_ret.ret = FALSE
    /\ sm_ret.case_id \in DOMAIN machines
    /\ machines[sm_ret.case_id].current_state = "FAILED"
    /\ machines[sm_ret.case_id].transitions # <<>>
    /\ machines[sm_ret.case_id].transitions[1] =
           [from_state |-> "PENDING", to_state |-> "INVESTIGATING"]

(***************************************************************************)
(* Claims on the workflow orchestrator                                     *)
(***************************************************************************)
\* every depends_on names a step of the workflow
DepsKnown(steps) ==
    \A i \in DOMAIN steps : Range(steps[i].depends_on) \subseteq DOMAIN steps

\* the depends_on graph has no cycle: the steps can be ranked so that every
\* step ranks above the steps it depends on
Acyclic(steps) ==
    \E rank \in [DOMAIN steps -> 1..Len(steps)] :
        \A i \in DOMAIN steps :
            \A d \in Range(steps[i].depends_on) \cap DOMAIN steps : rank[d] < rank[i]

Position(order, step_id) == CHOOSE k \in 1..Len(order) : order[k] = step_id

\* C7: for an acyclic depends_on graph whose dependencies all name steps of
\* the workflow, the computed execution order contains every step id exactly
\* once and places every step after all the steps of its depends_on.
C7_TopologicalOrder ==
    (sort_out # None /\ DepsKnown(sort_in) /\ Acyclic(sort_in)) =>
        LET order == sort_out[1].order
        IN  /\ ~sort_out[1].raised
            /\ Len(order) = Len(sort_in)
            /\ Range(order) = DOMAIN sort_in
            /\ \A i \in DOMAIN sort_in :
                   \A d \in Range(sort_in[i].depends_on) :
                       Position(order, d) < Position(order, i)

\* a sorted three-step workflow in which a later-declared step must run first
C7_Witness ==
    /\ sort_out # None /\ DepsKnown(sort_in) /\ Acyclic(sort_in)
    /\ Len(sort_in) >= 3
    /\ sort_in[1].depends_on = <<3, 2>>
    /\ sort_in[3].depends_on = <<2>>
    /\ sort_out[1].order = <<2, 3, 1>>

\* an execute_workflow call on workflow w ended in the last step
ExecuteEnded(w) ==
    /\ w \in DOMAIN workflows
    /\ wf_ret.op = "execute_workflow"
    /\ wf_ret.workflow_id = w
    /\ wf_ret.ret \in {"returned", "KeyError", "Exception", "TimeoutError"}

Completed(wf, s) ==
    /\ s \in DOMAIN wf.step_status /\ wf.step_status[s] = "completed"
    /\ s \in DOMAIN wf.step_results

Untouched(wf, s) == s \notin DOMAIN wf.step_status /\ s \notin DOMAIN wf.step_results

FailedAt(wf, order, k) ==
    /\ order[k] \in DOMAIN wf.step_status
    /\ wf.step_status[order[k]] \in {"failed", "timeout"}
    /\ \A j \in 1..(k - 1) : Completed(wf, order[j])
    /\ \A j \in (k + 1)..Len(order) : Untouched(wf, order[j])
    /\ \A s \in DOMAIN wf.steps :
           s # order[k] => ~(s \in DOMAIN wf.step_status
                             /\ wf.step_status[s] \in {"failed", "timeout"})

\* C8: when execute_workflow ends, either every step is completed with a
\* result and the workflow is RESOLVED, or exactly one step is failed or
\* timeout, the steps before it in the execution order are completed with a
\* result, no later step has a status or a result, the workflow is FAILED and
\* the error reached the caller.
C8_ResolvedOrOneFailure ==
    \A w \in WorkflowIds :
        ExecuteEnded(w) =>
            LET wf == workflows[w]
            IN  \/ /\ \A s \in DOMAIN wf.steps : Completed(wf, s)
                   /\ wf.state = "RESOLVED"
                   /\ wf_ret.ret = "returned"
                \/ /\ \E k \in 1..Len(wf_ret.order) : FailedAt(wf, wf_ret.order, k)
                   /\ wf.state = "FAILED"
                   /\ wf_ret.ret # "returned"

(***************************************************************************)
(* Claims on the orchestration engine and its circuit breaker              *)
(***************************************************************************)
\* a process_alert call for alert a returned in this step
ProcessAlertReturned(a) ==
    /\ eng_ret'.op = "process_alert" /\ eng_ret'.alert_id = a
    /\ \/ a \in DOMAIN inflight /\ a \notin DOMAIN inflight'
       \/ a \notin DOMAIN inflight /\ a \notin DOMAIN inflight'

\* a process_alert call for alert a started in this step
ProcessAlertCalled(a) ==
    /\ a \notin DOMAIN inflight
    /\ eng_ret'.alert_id = a
    /\ eng_ret'.op \in {"begin", "process_alert"}

\* C9: process_alert registers the alert in the active set and returns status
\* "processed" whatever the recommender does; when no attempt got a 200
\* response the proposition list is empty and proposition_count is 0.
C9_AlwaysProcessed ==
    [][\A a \in AlertIds :
          /\ ProcessAlertCalled(a) => a \in active_alerts'
          /\ ProcessAlertReturned(a) =>
                /\ eng_ret'.status = "processed"
                /\ eng_ret'.proposition_count = Len(eng_ret'.propositions)
                /\ ~eng_ret'.served =>
                      /\ eng_ret'.propositions = <<>>
                      /\ eng_ret'.proposition_count = 0]_vars

\* a call that got no 200 response returned "processed" with nothing to
\* propose, and its alert is registered
C9_Witness ==
    /\ eng_ret.op = "process_alert"
    /\ eng_ret.status = "processed"
    /\ ~eng_ret.served
    /\ eng_ret.proposition_count = 0
    /\ eng_ret.alert_id \in active_alerts

Elapsed == time - breaker.last_failure_time[1]

CanAttemptCalled == cb_ret'.op = "can_attempt" /\ time' = time

\* the streak of failures reaches the threshold: the breaker is open
OpensAtThreshold ==
    (cb_ret'.op = "record_failure" /\ streak' >= breaker.failure_threshold
        /\ streak' = streak + 1)
        => breaker'.state = "open"

\* an open breaker before the timeout: can_attempt is false, the state stays
ClosedBeforeTimeout ==
    (CanAttemptCalled /\ breaker.state = "open" /\ Elapsed < breaker.timeout)
        => cb_ret'.ret = Some(FALSE) /\ breaker'.state = "open"

\* C10 as stated: after failure_threshold consecutive record_failure calls on
\* a closed breaker the state is open and can_attempt is false until timeout
\* seconds have passed since the last failure; as soon as the elapsed time
\* is >= timeout, can_attempt returns true and the state becomes half_open.
C10_ReopensAtTimeout ==
    [][/\ OpensAtThreshold
       /\ ClosedBeforeTimeout
       /\ (CanAttemptCalled /\ breaker.state = "open" /\ Elapsed >= breaker.timeout)
            => cb_ret'.ret = Some(TRUE) /\ breaker'.state = "half_open"]_vars

\* C10 amended: the breaker opens at the threshold and can_attempt is false
\* while the elapsed time is <= timeout; once the elapsed time is > timeout,
\* can_attempt returns true and the state becomes half_open.
C10_ReopensAfterTimeout ==
    [][/\ OpensAtThreshold
       /\ ClosedBeforeTimeout
       /\ (CanAttemptCalled /\ breaker.state = "open" /\ Elapsed = breaker.timeout)
            => cb_ret'.ret = Some(FALSE) /\ breaker'.state = "open"
       /\ (CanAttemptCalled /\ breaker.state = "open" /\ Elapsed > breaker.timeout)
            => cb_ret'.ret = Some(TRUE) /\ breaker'.state = "half_open"]_vars

\* a breaker opened by a streak of failures refused an attempt made exactly
\* timeout seconds after the last failure
C10_Witness ==
    /\ cb_ret = [op |-> "can_attempt", ret |-> Some(FALSE)]
    /\ breaker.state = "open"
    /\ breaker.failure_count >= breaker.failure_threshold
    /\ breaker.timeout > 0
    /\ Elapsed = breaker.timeout

\* the breaker is half_open and no record_success or record_failure has been
\* called since the can_attempt call that made it so (a success would have
\* been counted or have closed the breaker, a failure would have opened it)
ProbeGranted == breaker.state = "half_open" /\ breaker.success_count = 0

\* C11 as stated: once a can_attempt call has returned true and made the
\* breaker half_open, a further can_attempt call made before any
\* record_success or record_failure returns false.
C11_SingleProbe ==
    [][(CanAttemptCalled /\ ProbeGranted) => cb_ret'.ret = Some(FALSE)]_vars

\* record_failure is called on a half-open breaker
FailsWhileHalfOpen == cb_ret'.op = "record_failure" /\ breaker.state = "half_open"

\* C12: a record_failure on a half_open breaker sets the state to open in
\* that call and makes the time of that failure the start of the timeout;
\* an open breaker answers can_attempt with false while less than timeout
\* seconds have passed since its last failure.
C12_FailureReopens ==
    [][/\ FailsWhileHalfOpen
            => breaker'.state = "open" /\ breaker'.last_failure_time = Some(time)
       /\ ClosedBeforeTimeout]_vars

\* a breaker that counted a success while half_open was reopened by a failure
\* and has refused an attempt made before the new timeout has passed
C12_Witness ==
    /\ cb_ret = [op |-> "can_attempt", ret |-> Some(FALSE)]
    /\ breaker.state = "open"
    /\ breaker.success_count = 1
    /\ Elapsed < breaker.timeout
    /\ breaker.last_failure_time[1] > breaker.timeout

\* the only task of the queue, of priority HIGH and max_retries = 2, has been
\* delivered twice and failed after each delivery
FailedTwice(id) ==
    /\ DOMAIN task_store = {id}
    /\ Task(id).priority = HIGH /\ Task(id).max_retries = 2
    /\ delivered[id] = 2 /\ Task(id).retry_count = 2
    /\ ~Delivered(id)

\* C13 as stated: for a task enqueued with priority HIGH and max_retries = 2,
\* after dequeue, fail, dequeue, fail, the call of complete leaves the task
\* COMPLETED with retry_count = 0 and get_stats reports dead_lettered = 0.
C13_CompletedAfterTwoFailures ==
    [][\A id \in TaskIds :
          (Known(id) /\ FailedTwice(id) /\ q_ret'.op = "complete")
            => /\ Task(id)'.status = COMPLETED
               /\ Task(id)'.retry_count = 0
               /\ get_stats'.dead_lettered = 0]_vars

\* the number of copies of an id in a list
Copies(list, id) == Cardinality({ i \in 1..Len(list) : list[i] = id })

\* C14 as stated: no complete or fail call changes the stored record of a
\* DEAD_LETTERED task or adds a copy of its id to the dead-letter list.
C14_DeadLetteredImmutable ==
    [][\A id \in TaskIds :
          (/\ Known(id) /\ Task(id).status = DEAD_LETTERED
           /\ q_ret'.op \in {"complete", "fail"})
            => /\ task_store'[id] = task_store[id]
               /\ Copies(dead_letter_queue', id) = Copies(dead_letter_queue, id)]_vars

\* C15: cancel_workflow returns true exactly when the workflow exists and its
\* state is PENDING or INVESTIGATING, and then sets its state to FAILED and
\* changes nothing else; in every other case (another state, an unknown id)
\* it returns false and leaves the state, step_status and step_results of
\* every workflow as they were.
C15_CancelOnlyWhenRunning ==
    [][wf_ret'.op = "cancel_workflow" /\ wf_ret' # wf_ret
        => LET w == wf_ret'.workflow_id
           IN  IF w \in DOMAIN workflows
                    /\ workflows[w].state \in {"PENDING", "INVESTIGATING"}
               THEN /\ wf_ret'.ret = "True"
                    /\ workflows' = [workflows EXCEPT ![w].state = "FAILED"]
               ELSE /\ wf_ret'.ret = "False"
                    /\ workflows' = workflows]_vars

\* cancel_workflow has refused to cancel a RESOLVED workflow, whose
\* results are still there
C15_Witness ==
    /\ wf_ret.op = "cancel_workflow" /\ wf_ret.ret = "False"
    /\ wf_ret.workflow_id \in DOMAIN workflows
    /\ workflows[wf_ret.workflow_id].state = "RESOLVED"
    /\ workflows[wf_ret.workflow_id].step_results # <<>>

CreateMachineCall(c) == sm_ret'.op = "create_machine" /\ sm_ret'.case_id = c

\* C17: create_machine for a case_id that already has a machine leaves that
\* machine (its current_state, transitions and handlers) as it was, whatever
\* initial_state is passed; the manager holds one machine per case_id, the one
\* stored under that id.
C17_CreateMachineIdempotent ==
    /\ [][\A c \in DOMAIN machines :
             CreateMachineCall(c)
               => /\ machines'[c] = machines[c]
                  /\ DOMAIN machines' = DOMAIN machines]_vars
    /\ [](\A c \in DOMAIN machines : machines[c].case_id = c)

\* create_machine(c, FAILED) was called for a machine that had already moved
\* to INVESTIGATING and is still there, with its transition
C17_Witness ==
    /\ sm_ret.op = "create_machine" /\ sm_ret.state = "FAILED"
    /\ sm_ret.case_id \in DOMAIN machines
    /\ machines[sm_ret.case_id].current_state = "INVESTIGATING"
    /\ Len(machines[sm_ret.case_id].transitions) = 1

(***************************************************************************)
(* Claims on the engine's RetryPolicy                                      *)
(***************************************************************************)
Returned(n) == delays[n] # None

\* what get_delay(n) returned, in hundredths of a second
Delay(n) == delays[n][1]

\* initial_delay x base^n has not reached max_delay at n
BelowMaxDelay(n) ==
    delay_policy.initial_delay * Pow(delay_policy.exponential_base, n)
        < delay_policy.max_delay

\* get_delay(n) is at most max_delay x 1.2, and with jitter it lies between
\* 0.8 and 1.2 times min(initial_delay x base^n, max_delay)
WithinJitter ==
    \A n \in Attempts :
        Returned(n)
          => /\ Delay(n) <= delay_policy.max_delay * 120
             /\ delay_policy.jitter
                  => /\ 80 * CappedDelay(delay_policy, n) <= Delay(n)
                     /\ Delay(n) <= 120 * CappedDelay(delay_policy, n)

\* C18 as stated: get_delay(n) never exceeds max_delay x 1.2, lies within 0.8
\* and 1.2 times the un-jittered value, and get_delay(n) <= get_delay(n+1)
\* as long as the un-jittered value of n+1 has not reached max_delay.
C18_DelayNonDecreasing ==
    /\ WithinJitter
    /\ \A n \in Attempts :
          (n + 1 \in Attempts /\ Returned(n) /\ Returned(n + 1) /\ BelowMaxDelay(n + 1))
            => Delay(n) <= Delay(n + 1)

\* C18 amended: get_delay(n) never exceeds max_delay x 1.2 and lies within
\* 0.8 and 1.2 times the un-jittered value; the un-jittered value is
\* non-decreasing in n, and so is get_delay(n) when jitter is off, or when
\* exponential_base >= 2 as long as the un-jittered value of n+1 has not
\* reached max_delay.
C18_DelayWithinJitter ==
    /\ WithinJitter
    /\ \A n \in Attempts :
          n + 1 \in Attempts
            => /\ CappedDelay(delay_policy, n) <= CappedDelay(delay_policy, n + 1)
               /\ (Returned(n) /\ Returned(n + 1))
                    => /\ ~delay_policy.jitter => Delay(n) <= Delay(n + 1)
                       /\ (delay_policy.exponential_base >= 2 /\ BelowMaxDelay(n + 1))
                            => Delay(n) <= Delay(n + 1)
    /\ \A n \in Attempts :
          (Returned(n) /\ ~delay_policy.jitter)
            => Delay(n) = NoJitter * CappedDelay(delay_policy, n)

\* a policy with jitter whose un-jittered delay stays below max_delay has
\* returned a longer delay for attempt 0 than for attempt 1
C18_Witness ==
    /\ delay_policy.jitter
    /\ Returned(0) /\ Returned(1)
    /\ BelowMaxDelay(1)
    /\ Delay(0) > Delay(1)

(***************************************************************************)
(* Claims on the workflow RetryPolicy                                      *)
(***************************************************************************)
\* C19: execute calls the wrapped function at most max_retries + 1 times; it
\* returns the function's result after exactly k + 1 calls when the function
\* failed k <= max_retries times first, raises the last exception when the
\* function failed max_retries + 1 times, and the sleep that follows failed
\* attempt a (0-based) is base_delay x 2^a.
C19_RetryExecute ==
    LET p == retry.policy
        k == Len(retry.failures)
    IN  /\ retry.calls <= p.max_retries + 1
        /\ retry.pc = "returned"
             => /\ k <= p.max_retries /\ retry.calls = k + 1
                /\ retry.outcome = Some(FuncResult)
        /\ retry.pc = "raised"
             => /\ k = p.max_retries + 1 /\ retry.calls = k
                /\ retry.outcome = Some(retry.failures[k])
        /\ k = p.max_retries + 1 => retry.pc = "raised"
        /\ Len(retry.sleeps) = IF retry.pc = "raised" THEN k - 1 ELSE k
        /\ \A a \in 0..(Len(retry.sleeps) - 1) :
              retry.sleeps[a + 1] = p.base_delay * Pow(2, a)

\* with max_retries = 2 and base_delay = 2 the function failed twice and then
\* succeeded: three calls, sleeps of 2 and 4 seconds
C19_Witness ==
    /\ retry.pc = "returned"
    /\ retry.policy = WorkflowRetryPolicy(2, 2)
    /\ Len(retry.failures) = 2 /\ retry.calls = 3
    /\ retry.sleeps = <<2, 4>>

(***************************************************************************)
(* Claims on apply_proposition                                             *)
(***************************************************************************)
\* apply_proposition is called for an alert of the active set
AppliedToActive ==
    eng_ret'.op = "apply_proposition" /\ eng_ret'.alert_id \in active_alerts

\* the action types _execute_by_type has a branch for
KnownActionTypes == {"auto_fix", "manual_review", "escalate", "ignore"}

\* C20: an apply_proposition call for an active alert appends exactly one
\* PropositionLog and leaves the earlier entries as they were; it runs an
\* executor iff user_decision is accepted; the record it returns has status
\* executed for accepted and rejected for every other decision; an action
\* type without an executor gives an execution result of status unknown.
C20_ApplyLogsAndExecutes ==
    [][AppliedToActive
        => LET n == Len(proposition_history)
               log == proposition_history'[n + 1]
               record == execution_record'[1]
           IN  /\ Len(proposition_history') = n + 1
               /\ SubSeq(proposition_history', 1, n) = proposition_history
               /\ log.alert_id = eng_ret'.alert_id
               /\ record.proposition_id = log.proposition_id
               /\ record.user_decision = log.user_decision
               /\ record.execution_result # None <=> log.user_decision = "accepted"
               /\ record.status = IF log.user_decision = "accepted"
                                  THEN "executed" ELSE "rejected"
               /\ (log.user_decision = "accepted"
                     /\ log.proposition_id \notin KnownActionTypes)
                    => record.execution_result[1].status = "unknown"
               /\ (log.user_decision = "accepted"
                     /\ log.proposition_id \in KnownActionTypes)
                    => record.execution_result[1].status = "success"]_vars

\* after an ignored proposition was logged, an accepted proposition of an
\* unknown action type came back executed with an execution result of status
\* unknown, as the second entry of the history
C20_Witness ==
    /\ eng_ret.op = "apply_proposition" /\ eng_ret.status = "executed"
    /\ Len(proposition_history) = 2
    /\ proposition_history[1].user_decision = "ignored"
    /\ proposition_history[2].user_decision = "accepted"
    /\ execution_record # None
    /\ execution_record[1].execution_result = Some([status |-> "unknown", type |-> "none"])

(***************************************************************************)
(* Claims on close_alert                                                   *)
(***************************************************************************)
\* close_alert is called in this step
CloseAlertCalled == eng_ret'.op = "close_alert" /\ eng_ret' # eng_ret

\* C21: close_alert on an active id removes exactly that id from the active
\* set and returns status closed; on any other id it returns status error and
\* leaves the active set as it was; the active set changes only by a
\* process_alert call, which adds its alert, and by a close_alert call, so it
\* is the set of the ids processed and not closed since; no close_alert
\* changes the proposition logs or the execution records.
C21_CloseAlert ==
    [][/\ CloseAlertCalled
            => /\ IF eng_ret'.alert_id \in active_alerts
                  THEN /\ eng_ret'.status = "closed"
                       /\ active_alerts' = active_alerts \ {eng_ret'.alert_id}
                  ELSE /\ eng_ret'.status = "error"
                       /\ active_alerts' = active_alerts
               /\ proposition_history' = proposition_history
               /\ action_history' = action_history
               /\ inflight' = inflight
       /\ \A a \in AlertIds : ProcessAlertCalled(a)
                                   => active_alerts' = active_alerts \cup {a}
       /\ active_alerts' # active_alerts
            => \/ CloseAlertCalled
               \/ \E a \in AlertIds : ProcessAlertCalled(a)]_vars

\* an alert with a logged proposition has been closed: it is out of the
\* active set, another alert is still in it, and the log is still there
C21_Witness ==
    /\ eng_ret.op = "close_alert" /\ eng_ret.status = "closed"
    /\ eng_ret.alert_id \notin active_alerts
    /\ active_alerts # {}
    /\ \E i \in 1..Len(proposition_history) :
          proposition_history[i].alert_id = eng_ret.alert_id

(***************************************************************************)
(* Claims on complete, enqueue, fail and dequeue                           *)
(***************************************************************************)
\* complete or fail is called in this step, with the id q_ret' names
CompleteCalled == q_ret'.op = "complete" /\ now' = now

FailCalled == q_ret'.op = "fail" /\ now' = now

\* the list without the occurrences of the id
Without(list, id) == SelectSeq(list, LAMBDA x : x # id)

\* C22: complete on a known task sets status COMPLETED, retry_count 0 and
\* completed_at, leaves its other fields and the other tasks as they were,
\* removes every occurrence of the id from the processing list and changes
\* no immediate queue, scheduled set or dead-letter list; complete or fail
\* on an unknown id changes nothing.
C22_CompleteEffect ==
    [][/\ \A id \in TaskIds :
            (CompleteCalled /\ q_ret'.id = id /\ Known(id))
              => /\ Task(id)' = [Task(id) EXCEPT !.status = "completed",
                                                 !.retry_count = 0,
                                                 !.completed_at = Task(id)'.completed_at]
                 /\ Task(id)'.completed_at # None
                 /\ DOMAIN task_store' = DOMAIN task_store
                 /\ \A other \in DOMAIN task_store \ {id} :
                       task_store'[other] = task_store[other]
                 /\ processing_queue' = Without(processing_queue, id)
                 /\ priority_queues' = priority_queues
                 /\ scheduled' = scheduled
                 /\ dead_letter_queue' = dead_letter_queue
       /\ ((CompleteCalled \/ FailCalled) /\ ~Known(q_ret'.id))
            => UNCHANGED <<task_store, priority_queues, scheduled,
                           processing_queue, dead_letter_queue>>]_vars

\* complete was called for a task waiting for a retry: the task is COMPLETED
\* and its id is still in the scheduled set
C22_Witness ==
    /\ q_ret.op = "complete" /\ Known(q_ret.id)
    /\ Task(q_ret.id).status = COMPLETED /\ Task(q_ret.id).retry_count = 0
    /\ Task(q_ret.id).error_message # None
    /\ InScheduled(q_ret.id)

EnqueueCalled(id) == q_ret'.op = "enqueue" /\ q_ret'.id = id /\ ~Known(id)

\* the number of places of the store that hold the id: immediate queues,
\* scheduled sets, the processing list and the dead-letter list
Places(id) ==
    LET Count(list) == Len(SelectSeq(list, LAMBDA x : x = id))
        InSet(p) == IF \E e \in scheduled[p] : e[1] = id THEN 1 ELSE 0
    IN  Count(priority_queues[CRITICAL]) + Count(priority_queues[HIGH])
          + Count(priority_queues[NORMAL]) + Count(priority_queues[LOW])
          + InSet(CRITICAL) + InSet(HIGH) + InSet(NORMAL) + InSet(LOW)
          + Count(processing_queue) + Count(dead_letter_queue)

NeverFailed(id) == Task(id).error_message = None

\* C23: enqueue stores a PENDING task with retry_count 0 and puts its id in
\* exactly one place: the scheduled set of its priority, scored with
\* scheduled_at, when scheduled_at is strictly in the future, otherwise the
\* immediate queue of its priority; and no dequeue returns a task so scheduled
\* (and not re-scheduled by fail since) while the clock is before its
\* scheduled_at.
C23_ScheduledEnqueue ==
    [][ \A id \in TaskIds :
          /\ EnqueueCalled(id) =>
                LET at == Task(id)'.scheduled_at
                    p == q_ret'.priority
                IN  /\ Task(id)'.status = PENDING_T
                    /\ Task(id)'.retry_count = 0
                    /\ Task(id)'.priority = p
                    /\ Places(id)' = 1
                    /\ IF at # None /\ at[1] > now
                       THEN <<id, at[1]>> \in scheduled'[p]
                       ELSE id \in Range(priority_queues'[p])
          /\ (q_ret'.op = "dequeue" /\ q_ret'.id = id /\ delivered' # delivered
                /\ Task(id).scheduled_at # None /\ NeverFailed(id))
             => Task(id).scheduled_at[1] <= now ]_vars

\* a dequeue has returned nothing while a scheduled task was not yet due
C23_Witness ==
    /\ q_ret.op = "dequeue" /\ q_ret.id = NoTask
    /\ \E id \in DOMAIN task_store :
          /\ Task(id).scheduled_at # None /\ Task(id).scheduled_at[1] > now
          /\ <<id, Task(id).scheduled_at[1]>> \in scheduled[Task(id).priority]
          /\ Task(id).status = PENDING_T

(***************************************************************************)
(* Claims on the retries and the breaker of process_alert                  *)
(***************************************************************************)
FetchFailures == {"exception", "timeout"}

\* the process_alert call for alert a got its last answer in this step and
\* returned
ReturnedAfterAnswer(a) == ProcessAlertReturned(a) /\ a \in DOMAIN inflight

\* C24: when the recommender call fails transiently process_alert re-attempts
\* it, up to 3 attempts in total, and returns the propositions of the first
\* attempt that succeeds; it returns the empty list for a failing recommender
\* only after all 3 attempts have failed.
C24_RetriesTransientFailures ==
    [][ \A a \in AlertIds : ReturnedAfterAnswer(a) =>
           LET log == fetch_log'[a]
               last == log[Len(log)]
           IN  /\ Len(log) <= FetchMaxRetries
               /\ last \in FetchFailures =>
                     /\ Len(log) = FetchMaxRetries
                     /\ eng_ret'.propositions = <<>>
               /\ last = "ok" => eng_ret'.served ]_vars

\* C25: the recommender breaker accumulates failures across process_alert
\* calls: once failure_threshold fetch failures have been recorded, and while
\* the breaker timeout has not elapsed since the last of them (the clock
\* stands still here), a following process_alert sends no POST and returns
\* at once with an empty proposition list.
C25_BreakerAccumulates ==
    [][ \A a \in AlertIds :
           (ProcessAlertCalled(a) /\ fetch_failures >= DefaultFailureThreshold)
           => /\ eng_ret'.op = "process_alert"
              /\ eng_ret'.propositions = <<>>
              /\ a \notin DOMAIN inflight' ]_vars

(***************************************************************************)
(* Claims on the not-found outcomes of the workflow orchestrator           *)
(***************************************************************************)
\* execute_workflow(w) is about to start an attempt of its current step (the
\* call begins, or a backoff sleep ends), and that step names a service that
\* is not registered
AttemptsUnregistered(w) ==
    /\ w \in DOMAIN workflows
    /\ wf_ret'.op = "execute_workflow" /\ wf_ret'.workflow_id = w
    /\ wf_ret'.order # <<>>
    /\ \/ w \notin DOMAIN exec
       \/ w \in DOMAIN exec /\ exec[w].pc = "sleep"
    /\ LET idx == IF w \in DOMAIN exec THEN exec[w].idx ELSE 1
       IN  workflows[w].steps[wf_ret'.order[idx]].service \notin service_registry

CurrentStep(w) == wf_ret'.order[IF w \in DOMAIN exec THEN exec[w].idx ELSE 1]

OthersUnchanged(w) ==
    \A o \in DOMAIN workflows \ {w} :
        /\ workflows'[o] = workflows[o]
        /\ (o \in DOMAIN exec) = (o \in DOMAIN exec')
        /\ o \in DOMAIN exec => exec'[o] = exec[o]

\* C26: execute_workflow and get_workflow_status on an unknown workflow id
\* raise an error and change no workflow; an attempt at a step whose service
\* is not registered makes no call, and when the attempts are used up the step
\* has status failed and no result, its workflow is FAILED and the call raises,
\* while every other workflow is unchanged.
C26_NotFound ==
    [][ /\ (wf_ret'.op \in {"execute_workflow", "get_workflow_status"}
             /\ wf_ret'.workflow_id \notin DOMAIN workflows)
           => /\ wf_ret'.ret = "ValueError"
              /\ UNCHANGED <<workflows, exec, service_registry>>
        /\ \A w \in BothWorkflows : AttemptsUnregistered(w) =>
              /\ OthersUnchanged(w)
              /\ IF w \in DOMAIN exec'
                 THEN /\ exec'[w].pc = "sleep"
                      /\ workflows'[w].state = "INVESTIGATING"
                      /\ workflows'[w].step_results = workflows[w].step_results
                 ELSE /\ wf_ret'.ret = "Exception"
                      /\ workflows'[w].state = "FAILED"
                      /\ workflows'[w].step_status[CurrentStep(w)] = "failed"
                      /\ workflows'[w].step_results = workflows[w].step_results
                      /\ CurrentStep(w) \notin DOMAIN workflows'[w].step_results ]_vars

\* a call has just failed on a step whose service is not registered, next to
\* a second workflow that is being executed
C26_Witness ==
    /\ service_registry = {}
    /\ wf_ret.op = "execute_workflow" /\ wf_ret.ret = "Exception"
    /\ \E w \in DOMAIN workflows :
          /\ wf_ret.workflow_id = w
          /\ workflows[w].state = "FAILED"
          /\ \E k \in DOMAIN workflows[w].step_status :
                workflows[w].step_status[k] = "failed"
          /\ workflows[w].step_results = <<>>
          /\ \E o \in DOMAIN workflows \ {w} : workflows[o].state = "PENDING"

(***************************************************************************)
(* Claims on fail, dequeue and the order of delivery                       *)
(***************************************************************************)
DequeueReturned(id) ==
    q_ret'.op = "dequeue" /\ q_ret'.id = id /\ delivered' # delivered

C28_DequeueEffect ==
    [][ /\ \A id \in TaskIds : DequeueReturned(id) =>
              /\ Task(id)'.status = PROCESSING
              /\ Task(id)'.started_at # None
              /\ id \in Range(processing_queue')
              /\ \A p \in TaskPriority :
                    /\ id \notin Range(priority_queues'[p])
                    /\ \A e \in scheduled'[p] : e[1] # id
        /\ (q_ret'.op = "dequeue" /\ q_ret'.id = NoTask /\ now' = now)
           => \A p \in TaskPriority :
                 /\ priority_queues[p] = <<>>
                 /\ \A e \in scheduled[p] : e[2] > now ]_vars

\* a dequeue has returned a task that came from a scheduled set, behind
\* another task that is still queued
C28_Witness ==
    /\ q_ret.op = "dequeue"
    /\ \E id \in DOMAIN task_store :
          /\ q_ret.id = id
          /\ Task(id).status = PROCESSING
          /\ Task(id).scheduled_at # None
          /\ id \in Range(processing_queue)
          /\ priority_queues[Task(id).priority] # <<>>

\* the occurrences of an id in the immediate queues
QueueCopies(id) ==
    LET Count(list) == Len(SelectSeq(list, LAMBDA x : x = id))
    IN  Count(priority_queues[CRITICAL]) + Count(priority_queues[HIGH])
          + Count(priority_queues[NORMAL]) + Count(priority_queues[LOW])

\* the workers that popped the id and have not returned yet
InFlight(id) ==
    Cardinality({w \in Workers : workers[w].pc \in {"hget", "hset", "track"}
                                   /\ workers[w].id = id})

HeldByBoth(id) == \A w \in Workers : id \in got[w]

\* C29: with two workers interleaving between the store commands of dequeue,
\* a task is held by both workers only if both promoted its id from the
\* scheduled set; every occurrence of an id pushed on an immediate queue is
\* in a queue, with the one worker that popped it, or delivered once; and
\* the write of a delivery sets PROCESSING and changes nothing else of the
\* record but started_at, so that a task held by a worker has status
\* PROCESSING with its retry_count as before.
C29_InterleavedDequeue ==
    [][ \A id \in TaskIds :
          /\ HeldByBoth(id)' => promoters'[id] = Workers
          /\ Known(id)' =>
                QueueCopies(id)' + InFlight(id)' + delivered'[id] = pushed'[id]
          /\ (\E w \in Workers : id \in got'[w]) => Task(id)'.status = PROCESSING
          /\ \A w \in Workers :
                (At(w, "hset") /\ workers[w].id = id /\ ~At(w, "hset")')
                => /\ Task(id)'.status = PROCESSING
                   /\ Task(id)'.started_at # None
                   /\ [Task(id)' EXCEPT !.status = Task(id).status,
                                        !.started_at = Task(id).started_at]
                        = Task(id) ]_vars

\* both workers hold the same task, delivered after a failure, and the
\* processing list names it twice
C29_Witness ==
    \E id \in DOMAIN task_store :
        /\ HeldByBoth(id)
        /\ Task(id).retry_count = 1
        /\ Task(id).status = PROCESSING
        /\ Len(SelectSeq(processing_queue, LAMBDA x : x = id)) = 2

\* a task enqueued for immediate delivery and not delivered yet
Immediate(id) ==
    /\ Known(id)
    /\ Task(id).status = PENDING_T
    /\ Task(id).scheduled_at = None
    /\ id \in Range(priority_queues[Task(id).priority])

\* the place of an id in the immediate queue of its priority: lpush puts an
\* id at the head, place 1, so the later of two enqueues has the lower place
Place(id) ==
    LET queue == priority_queues[Task(id).priority]
    IN  CHOOSE i \in 1..Len(queue) : queue[i] = id

EnqueuedAfter(a, b) ==
    /\ a # b
    /\ Immediate(a) /\ Immediate(b)
    /\ Task(a).priority = Task(b).priority
    /\ Place(a) < Place(b)

\* C30 (as stated): of two tasks of one priority level enqueued for immediate
\* delivery, dequeue delivers the one enqueued later first.
C30_StackOrder ==
    [][ \A id, other \in TaskIds :
          (DequeueReturned(id) /\ Immediate(id) /\ Immediate(other) /\ other # id
             /\ Task(other).priority = Task(id).priority)
          => EnqueuedAfter(id, other) ]_vars

\* C30 (amended): of two tasks of one priority level enqueued for immediate
\* delivery, dequeue delivers the one enqueued earlier first.
C30_QueueOrder ==
    [][ \A id, other \in TaskIds :
          (DequeueReturned(id) /\ Immediate(id) /\ Immediate(other) /\ other # id
             /\ Task(other).priority = Task(id).priority)
          => EnqueuedAfter(other, id) ]_vars

\* one of two immediate tasks of a priority level has been delivered and the
\* other one is still queued
C30_Witness ==
    /\ q_ret.op = "dequeue"
    /\ \E id, other \in DOMAIN task_store :
          /\ q_ret.id = id /\ other # id
          /\ Task(id).status = PROCESSING /\ Task(id).scheduled_at = None
          /\ delivered[id] = 1
          /\ Immediate(other)
          /\ Task(other).priority = Task(id).priority

(***************************************************************************)
(* Claims on cancellation during execute_workflow                          *)
(***************************************************************************)
\* no step of the workflow retries, so execute_workflow is only ever
\* suspended inside a service call
NeverSleeps(wf) == \A s \in DOMAIN wf.steps : wf.steps[s].retry_policy = Some(0)

\* execute_workflow on w is suspended inside a service call and cancel_workflow
\* has returned true since the call began: only cancel_workflow sets FAILED
\* while the call goes on
CancelledInCall(w) ==
    /\ w \in DOMAIN exec
    /\ exec[w].pc = "call"
    /\ NeverSleeps(workflows[w])
    /\ workflows[w].state = "FAILED"

\* C31: when cancel_workflow has returned true while execute_workflow was
\* suspended inside a step's service call, the state of the workflow once
\* execute_workflow has finished is FAILED, whatever the outcome of the step
\* and of the steps after it.
C31_CancelNotOverwritten ==
    [][\A w \in WorkflowIds :
           (CancelledInCall(w) /\ w \notin DOMAIN exec')
               => workflows'[w].state = "FAILED"]_vars

(***************************************************************************)
(* Claims on _topological_sort over a cyclic graph                         *)
(***************************************************************************)
\* some step of the order is not placed after one of its dependencies
SomeStepBeforeDependency(steps, order) ==
    \E i \in DOMAIN steps :
        \E d \in Range(steps[i].depends_on) : Position(order, d) >= Position(order, i)

InExecuteWorkflow(w) == w \in DOMAIN exec

\* C33: every execute_workflow call eventually ends, with the workflow in
\* RESOLVED or FAILED, also when a step's service call never responds: the
\* step's timeout cuts the call off, the step is marked timeout and the
\* workflow is FAILED.
C33_ExecuteNeverHangs ==
    \A w \in WorkflowIds :
        InExecuteWorkflow(w) ~> /\ ~InExecuteWorkflow(w)
                                /\ w \in DOMAIN workflows
                                /\ workflows[w].state \in {"RESOLVED", "FAILED"}

(***************************************************************************)
(* Claims on the payload of a step's service call                          *)
(***************************************************************************)
\* the step whose service call execute_workflow on w is awaiting
CallIssued(w) == w \in DOMAIN exec /\ exec[w].pc = "call"

StepInCall(w) == workflows[w].steps[exec[w].order[exec[w].idx]]

\* C34: while a step's service call is issued, every step of its depends_on
\* has status completed, the payload passed holds for each dependency d the
\* key d_result with d's recorded result next to the step's own entries, and
\* the payload stored in the step has gained no key.
C34_PayloadCarriesResults ==
    \A w \in WorkflowIds :
        CallIssued(w) =>
            LET wf == workflows[w]
                step == StepInCall(w)
                payload == exec[w].payload
            IN  /\ \A d \in Range(step.depends_on) :
                       /\ d \in DOMAIN wf.step_status
                       /\ wf.step_status[d] = "completed"
                       /\ d \in DOMAIN wf.step_results
                       /\ ResultKey(d) \in DOMAIN payload
                       /\ payload[ResultKey(d)] = wf.step_results[d]
                /\ \A k \in DOMAIN StepPayload :
                       k \in DOMAIN payload /\ payload[k] = StepPayload[k]
                /\ step.payload = StepPayload

(***************************************************************************)
(* Claims on the transitions list of a case state machine                  *)
(***************************************************************************)
\* consecutive records of the list join, and the last one ends in the
\* current state
Chained(machine) ==
    LET t == machine.transitions
    IN  /\ \A i \in 1..(Len(t) - 1) : t[i].to_state = t[i + 1].from_state
        /\ t # <<>> => t[Len(t)].to_state = machine.current_state

\* a transition call on case c succeeded in this step
TransitionSucceeded(c) ==
    /\ sm_ret'.op = "transition" /\ sm_ret'.case_id = c /\ sm_ret'.ret
    /\ sm_ret' # sm_ret \/ machines' # machines

\* the list of case c is the list before, or the list before with one record
\* from the state before to the state after
AppendOnly(c) ==
    LET before == machines[c]
        after == machines'[c]
    IN  IF TransitionSucceeded(c)
        THEN /\ after.transitions =
                    Append(before.transitions,
                           [from_state |-> before.current_state,
                            to_state |-> after.current_state])
             /\ after.current_state = sm_ret'.state
        ELSE /\ after.transitions = before.transitions
             /\ after.current_state = before.current_state

\* C35: the transitions list of a machine is append-only and chained: a
\* successful transition appends exactly one record, from the state before the
\* call to the new current_state; no other call changes the list; consecutive
\* records join (record[i].to_state = record[i+1].from_state) and the last
\* record ends in current_state.
C35_TransitionsAppendOnly ==
    /\ [](\A c \in DOMAIN machines : Chained(machines[c]))
    /\ [][\A c \in DOMAIN machines : c \in DOMAIN machines' /\ AppendOnly(c)]_vars

\* a machine has made three transitions, the last into a terminal state
C35_Witness ==
    \E c \in DOMAIN machines :
        /\ Len(machines[c].transitions) = 3
        /\ machines[c].transitions[1].from_state = "PENDING"
        /\ machines[c].current_state = "FAILED"
        /\ sm_ret.op = "transition" /\ sm_ret.ret

(***************************************************************************)
(* Claims on the closing of a half-open breaker                            *)
(***************************************************************************)
RecordSuccessCalled == cb_ret'.op = "record_success"

\* C36: a half-open breaker moves to closed exactly when success_threshold
\* record_success calls have been made since it entered half_open with no
\* record_failure in between, and on closing failure_count and success_count
\* are both 0; until then it stays half_open with its failure_count; nothing
\* but record_success closes it; record_success on a closed or open breaker
\* changes neither its state nor its counters.
C36_ClosesAfterThreshold ==
    /\ [](breaker.state = "half_open" => probe_successes < breaker.success_threshold)
    /\ [][/\ (RecordSuccessCalled /\ breaker.state = "half_open")
               => IF probe_successes' = breaker.success_threshold
                  THEN /\ breaker'.state = "closed"
                       /\ breaker'.failure_count = 0
                       /\ breaker'.success_count = 0
                  ELSE /\ breaker'.state = "half_open"
                       /\ breaker'.failure_count = breaker.failure_count
          /\ (RecordSuccessCalled /\ breaker.state \in {"closed", "open"})
               => breaker' = breaker
          /\ (breaker.state = "half_open" /\ breaker'.state = "closed"
                /\ cb_ret'.op # "init")
               => RecordSuccessCalled]_vars

\* a breaker with success_threshold 2 has closed at the second success of its
\* probe
C36_Witness ==
    /\ cb_ret.op = "record_success"
    /\ breaker.success_threshold = 2
    /\ probe_successes = 2
    /\ breaker.state = "closed"
    /\ breaker.failure_count = 0 /\ breaker.success_count = 0

(***************************************************************************)
(* Claims on the failure count of the breaker                              *)
(***************************************************************************)
RecordFailureCalled == cb_ret'.op = "record_failure"

\* C38: failures are counted cumulatively: failure_count is the number of
\* record_failure calls since the breaker was created or last closed,
\* record_success on a closed breaker leaves it as it is, and a record_failure
\* call leaves the breaker open exactly when that number has reached
\* failure_threshold; a closed breaker has failure_count < failure_threshold,
\* an open or half-open one has failure_count >= failure_threshold.
C38_CumulativeFailures ==
    /\ [](breaker.failure_count = failures_since_closed)
    /\ [](breaker.state = "closed" => breaker.failure_count < breaker.failure_threshold)
    /\ [](breaker.state \in {"open", "half_open"}
            => breaker.failure_count >= breaker.failure_threshold)
    /\ [][/\ RecordFailureCalled
               => (breaker'.state = "open"
                     <=> failures_since_closed' >= breaker.failure_threshold)
          /\ (RecordSuccessCalled /\ breaker.state = "closed")
               => breaker'.failure_count = breaker.failure_count]_vars

\* a breaker of threshold 2 was opened by its second failure although that
\* failure did not follow the first directly (it is the only one of its
\* streak): a record_success or a can_attempt came between the two
C38_Witness ==
    /\ cb_ret.op = "record_failure"
    /\ breaker.failure_threshold = 2
    /\ breaker.state = "open"
    /\ failures_since_closed = 2
    /\ streak = 1
    /\ time = 0

(***************************************************************************)
(* Claims on the places of a task in the store                             *)
(***************************************************************************)
\* the id waits under priority p: in the immediate queue or the scheduled set
WaitsUnder(id, p) ==
    \/ id \in Range(priority_queues[p])
    \/ \E e \in scheduled[p] : e[1] = id

\* the ids some structure of the store holds
Placed ==
    UNION { Range(priority_queues[p]) : p \in TaskPriority }
      \cup UNION { { e[1] : e \in scheduled[p] } : p \in TaskPriority }
      \cup Range(processing_queue) \cup Range(dead_letter_queue)

\* the place of the task matches its status
PlaceMatchesStatus(id) ==
    LET task == Task(id)
    IN  CASE task.status \in {PENDING_T, RETRYING} ->
                 Places(id) = 1 /\ WaitsUnder(id, task.priority)
          [] task.status = PROCESSING ->
                 Places(id) = 1 /\ id \in Range(processing_queue)
          [] task.status = DEAD_LETTERED ->
                 Places(id) = 1 /\ id \in Range(dead_letter_queue)
          [] task.status = COMPLETED -> Places(id) = 0
          [] OTHER -> FALSE

\* C37: with one worker that answers only the tasks dequeue gave it, every
\* id occurs at most once over the immediate queues, the scheduled sets, the
\* processing list and the dead-letter list, under its own priority, in the
\* place of its status (PENDING or RETRYING waiting, PROCESSING in the
\* processing list, DEAD_LETTERED in the dead-letter list, COMPLETED nowhere),
\* and every id placed has a record in the task store.
C37_OnePlacePerTask ==
    /\ Placed \subseteq DOMAIN task_store
    /\ \A id \in DOMAIN task_store : PlaceMatchesStatus(id)

\* a task that failed once waits again in its immediate queue, its retry
\* time having passed, while another task is dead-lettered
C37_Witness ==
    \E a, b \in DOMAIN task_store :
        /\ Task(a).status = RETRYING /\ a \in Range(priority_queues[Task(a).priority])
        /\ Task(b).status = DEAD_LETTERED /\ b \in Range(dead_letter_queue)

(***************************************************************************)
(* Claims on the terminal states of a workflow                             *)
(***************************************************************************)
\* the workflow has ended: RESOLVED or FAILED, with no execute_workflow call
\* in progress
Ended(w) ==
    /\ w \in DOMAIN workflows
    /\ workflows[w].state \in {"RESOLVED", "FAILED"}
    /\ w \notin DOMAIN exec

\* C39: RESOLVED and FAILED are absorbing: once a workflow has ended, no
\* execute_workflow or cancel_workflow call changes its state or issues a
\* service call for one of its steps, so that every step is executed at most
\* once.
C39_TerminalAbsorbing ==
    [][\A w \in WorkflowIds :
           Ended(w) => /\ workflows'[w].state = workflows[w].state
                       /\ w \notin DOMAIN exec']_vars

(***************************************************************************)
(* Claims on the lifetime of a case state machine                          *)
(***************************************************************************)
\* the state the machine was created in
InitialState(machine) ==
    IF machine.transitions = <<>> THEN machine.current_state
    ELSE machine.transitions[1].from_state

\* the states the machine has been in, in order
StatesEntered(machine) ==
    <<InitialState(machine)>>
        \o [i \in 1..Len(machine.transitions) |-> machine.transitions[i].to_state]

\* no transition call on the machine can succeed
Stuck(machine) == \A s \in CaseState : ~transition(machine, s).ret

\* C40: a machine created in PENDING makes at most 4 successful transitions:
\* its transitions list never has more than 4 records, it never re-enters a
\* state it has left, and whenever no transition can succeed it is in
\* RESOLVED, FAILED or CANCELLED.
C40_AtMostFourTransitions ==
    \A c \in DOMAIN machines :
        LET machine == machines[c]
            entered == StatesEntered(machine)
        IN  InitialState(machine) = "PENDING" =>
                /\ Len(machine.transitions) <= 4
                /\ \A i, j \in 1..Len(entered) : i # j => entered[i] # entered[j]
                /\ Stuck(machine)
                     => machine.current_state \in {"RESOLVED", "FAILED", "CANCELLED"}

\* a machine created in PENDING has gone through every phase to RESOLVED in
\* four transitions and can make no other
C40_Witness ==
    \E c \in DOMAIN machines :
        /\ StatesEntered(machines[c]) =
               <<"PENDING", "INVESTIGATING", "VALIDATING", "REMEDIATING", "RESOLVED">>
        /\ machines[c].current_state = "RESOLVED"
        /\ Stuck(machines[c])
        /\ sm_ret.op = "transition" /\ ~sm_ret.ret

====
